---- MODULE Spec2Model ----
(***************************************************************************)
(* scruby: document redaction pipeline.                                    *)
(*                                                                         *)
(*   Redactor._resolve_conflicts      (redactor/redactor.py)  SpecResolve  *)
(*   Redactor._custom_hash_redaction  (redactor/redactor.py)  SpecHash     *)
(*   Redactor.redact                  (redactor/redactor.py)  SpecRedact   *)
(*   Pipeline.process                 (pipeline/pipeline.py)  Spec         *)
(*   ComponentRegistry                (registry.py)           SpecRegistry *)
(*                                                                         *)
(* Texts are sequences of one-character strings; an entity is a record     *)
(* [entity_type, start, end, score] with a half-open span [start, end).    *)
(* Confidence scores are floats in the program; the model keeps them as    *)
(* integer percentages, which preserves their order.                       *)
(***************************************************************************)
EXTENDS Integers, Sequences, FiniteSets, TLC

VARIABLES
    rc_pc,        \* position of the _resolve_conflicts call: "idle" | "call" | "done"
    rc_results,   \* the list handed to _resolve_conflicts
    rc_filtered,  \* the returned list, as indices into rc_results (object identity)
    h_pc,         \* hash redaction: "off" | "idle" | "redacted"
    h_mode,       \* "off" | "text" (free-text documents) | "rows" (fields of rows)
    h_secret,     \* config value hmac_secret, or NoValue when the key is absent
    h_text,       \* the text handed to _custom_hash_redaction
    h_results,    \* the entities handed to _custom_hash_redaction
    h_redacted,   \* the returned text, a sequence of characters and tokens
    h_ref,        \* an occurrence redacted in an earlier document of the same secret
    rd_pc,        \* Redactor.redact: "off" | "call" | "done"
    rd_config,    \* the redactor's configuration
    rd_document,  \* the document handed to redact
    rd_strategy,  \* the strategy argument of redact, NoValue for None
    rd_analysis,  \* what the detection engine did on the content
    rd_out,       \* what redact returned or raised
    p_pc,         \* Pipeline.process: "off" | the step it is about to take | "returned" | "raised"
    p_call,       \* the arguments of process
    p_config,     \* the pipeline's configuration
    p_source,     \* the documents the reader yields, in order
    p_read,       \* how many documents the reader has yielded
    p_doc,        \* the local variable doc: empty, or the one document in flight
    p_stage,      \* how many pre- or postprocessors have run on the document in flight
    p_processed,  \* the list processed_documents
    p_writer,     \* the writer: what it holds in memory, what is in its destination
    p_log,        \* the calls process has made so far, with arguments and outcomes
    p_error,      \* empty, or the one exception process raised
    reg_registry, \* ComponentRegistry._registry: a dict from names to classes
    reg_latest,   \* for each name whose registration stands, the class of the last
                  \* register that succeeded; a successful unregister or clear ends it
    reg_made,     \* how many instances the registered classes have constructed
    reg_last,     \* the last call on the registry: arguments, state before, outcome
    th_initial,   \* the shared registry's _registry before the threads start
    th_registry,  \* the shared registry's _registry, which every thread reads and writes
    th_calls,     \* for each thread, the one registry call it makes
    th_pc,        \* for each thread, how far it is within the method it called
    th_out,       \* for each thread, what its call returned or raised
    an_pc,        \* whether PresidioAnalyzer.analyze has run yet
    an_config,    \* the configuration the analyzer holds: a dict or a Config object
    an_entities,  \* the entities argument of Redactor.redact: empty for None
    an_engine     \* the arguments the detection engine was called with

resolveVars == <<rc_pc, rc_results, rc_filtered>>

hashVars == <<h_pc, h_mode, h_secret, h_text, h_results, h_redacted, h_ref>>

redactVars == <<rd_pc, rd_config, rd_document, rd_strategy, rd_analysis, rd_out>>

pipeVars == <<p_pc, p_call, p_config, p_source, p_read, p_doc, p_stage,
              p_processed, p_writer, p_log, p_error>>

registryVars == <<reg_registry, reg_latest, reg_made, reg_last>>

threadVars == <<th_initial, th_registry, th_calls, th_pc, th_out>>

analyzeVars == <<an_pc, an_config, an_entities, an_engine>>

vars == <<rc_pc, rc_results, rc_filtered,
          h_pc, h_mode, h_secret, h_text, h_results, h_redacted, h_ref,
          rd_pc, rd_config, rd_document, rd_strategy, rd_analysis, rd_out,
          p_pc, p_call, p_config, p_source, p_read, p_doc, p_stage,
          p_processed, p_writer, p_log, p_error,
          reg_registry, reg_latest, reg_made, reg_last,
          th_initial, th_registry, th_calls, th_pc, th_out,
          an_pc, an_config, an_entities, an_engine>>

(***************************************************************************)
(* Bounds of the model.                                                    *)
(***************************************************************************)
MaxPos == 2          \* entity spans lie within 0..MaxPos
MaxEntities == 3     \* length of the list handed to _resolve_conflicts
MaxTextLen == 3      \* length of a document text handed to _custom_hash_redaction
MaxFieldLen == 4     \* length of a field value handed to _custom_hash_redaction
MaxRefLen == 3       \* length of a redacted literal kept for later comparison
MaxContentLen == 2   \* length of the content of a document handed to redact
MaxDetected == 2     \* number of entities the detection engine reports for a content
MaxHashEntities == 2 \* length of the list handed to _custom_hash_redaction
MaxInstances == 2    \* number of instances the classes of a registry construct

(***************************************************************************)
(* Generic helpers.                                                        *)
(***************************************************************************)
SeqsUpTo(S, n) == UNION {[1..k -> S] : k \in 0..n}

Range(s) == {s[i] : i \in DOMAIN s}

NoValue == "<none>"  \* Python's None, and an absent key

(***************************************************************************)
(* Redactor._resolve_conflicts                                             *)
(***************************************************************************)
\* A type of the priority table and two types that are not in it.
EntityTypes == {"PERSON", "CUSTOM_ID", "IP_ADDRESS"}

\* The scores of the detections of a type, in hundredths.
Scores(t) == IF t = "PERSON" THEN {50, 90} ELSE {50}

Entities ==
    UNION {{[entity_type |-> t, start |-> s, end |-> e, score |-> c] :
               s \in 0..MaxPos, e \in 0..MaxPos, c \in Scores(t)} : t \in EntityTypes}

\* The detection engine's contract: 0 <= start < end.
ValidEntities == {r \in Entities : r.start < r.end}

ListedTypes ==
    {"US_SSN", "EMAIL_ADDRESS", "PHONE_NUMBER", "CREDIT_CARD",
     "MEDICAL_RECORD_NUMBER", "PRESCRIPTION_NUMBER", "INSURANCE_ID",
     "PERSON", "DATE_TIME", "LOCATION", "ORGANIZATION", "DEFAULT"}

ENTITY_PRIORITIES ==
    [t \in ListedTypes |->
        CASE t = "US_SSN" -> 100
          [] t = "EMAIL_ADDRESS" -> 95
          [] t = "PHONE_NUMBER" -> 90
          [] t = "CREDIT_CARD" -> 85
          [] t = "MEDICAL_RECORD_NUMBER" -> 80
          [] t = "PRESCRIPTION_NUMBER" -> 75
          [] t = "INSURANCE_ID" -> 70
          [] t = "PERSON" -> 60
          [] t = "DATE_TIME" -> 50
          [] t = "LOCATION" -> 40
          [] t = "ORGANIZATION" -> 30
          [] OTHER -> 10]

\* (entity_priority, confidence, span_length)
get_priority(result) ==
    <<IF result.entity_type \in ListedTypes
        THEN ENTITY_PRIORITIES[result.entity_type]
        ELSE ENTITY_PRIORITIES["DEFAULT"],
      result.score,
      result.end - result.start>>

\* Python's tuple comparison a > b: lexicographic.
TupleGreater(a, b) ==
    \/ a[1] > b[1]
    \/ a[1] = b[1] /\ a[2] > b[2]
    \/ a[1] = b[1] /\ a[2] = b[2] /\ a[3] > b[3]

overlaps(r1, r2) == ~(r1.end <= r2.start \/ r2.end <= r1.start)

\* sorted(results, key=lambda x: x.start): a stable sort, here of the indices.
RECURSIVE InsertByStart(_, _, _)
InsertByStart(results, sorted, i) ==
    IF sorted = <<>> THEN <<i>>
    ELSE IF results[sorted[Len(sorted)]].start <= results[i].start
         THEN Append(sorted, i)
         ELSE Append(InsertByStart(results, SubSeq(sorted, 1, Len(sorted) - 1), i),
                     sorted[Len(sorted)])

RECURSIVE SortedByStartFrom(_, _, _)
SortedByStartFrom(results, k, sorted) ==
    IF k > Len(results) THEN sorted
    ELSE SortedByStartFrom(results, k + 1, InsertByStart(results, sorted, k))

\* A sort that leaves the list in the order it came in.
SortedByStartKeep(results) == [i \in DOMAIN results |-> i]

SortedByStart(results) == SortedByStartFrom(results, 1, <<>>)

\* A comparison of the type priorities alone.
CurrentWinsByType(current, existing) ==
    get_priority(current)[1] > get_priority(existing)[1]

\* The comparison with its operands swapped: the lower tuple wins.
CurrentWinsSwapped(current, existing) ==
    TupleGreater(get_priority(existing), get_priority(current))

\* get_priority(current) > get_priority(existing)
CurrentWins(current, existing) ==
    TupleGreater(get_priority(current), get_priority(existing))

\* The inner loop over the accepted entities, with its break.
RECURSIVE ScanExisting(_, _, _, _, _)
ScanExisting(results, current, filtered, i, to_remove) ==
    IF i > Len(filtered)
    THEN [should_add |-> TRUE, to_remove |-> to_remove]
    ELSE IF overlaps(results[current], results[filtered[i]])
         THEN IF CurrentWins(results[current], results[filtered[i]])
              THEN ScanExisting(results, current, filtered, i + 1, to_remove \cup {i})
              ELSE [should_add |-> FALSE, to_remove |-> to_remove]
         ELSE ScanExisting(results, current, filtered, i + 1, to_remove)

\* A version of the removal loop that forgets to pop the losing entities.
PopAllKeep(filtered, to_remove, i) == filtered

\* for i in reversed(to_remove): filtered.pop(i)
RECURSIVE PopAll(_, _, _)
PopAll(filtered, to_remove, i) ==
    IF i > Len(filtered) THEN <<>>
    ELSE IF i \in to_remove
         THEN PopAll(filtered, to_remove, i + 1)
         ELSE <<filtered[i]>> \o PopAll(filtered, to_remove, i + 1)

\* One iteration of the outer loop.
AcceptStep(results, filtered, current) ==
    LET scan == ScanExisting(results, current, filtered, 1, {})
        kept == PopAll(filtered, scan.to_remove, 1)
    IN  IF scan.should_add THEN Append(kept, current) ELSE kept

RECURSIVE FilterFrom(_, _, _, _)
FilterFrom(results, sorted, k, filtered) ==
    IF k > Len(sorted) THEN filtered
    ELSE FilterFrom(results, sorted, k + 1, AcceptStep(results, filtered, sorted[k]))

\* The indices, in result order, of the entities _resolve_conflicts returns.
ResolveIdx(results) ==
    IF results = <<>> THEN <<>>
    ELSE FilterFrom(results, SortedByStart(results), 1, <<>>)

\* The list _resolve_conflicts returns.
ResolveConflicts(results) ==
    LET idx == ResolveIdx(results) IN [i \in DOMAIN idx |-> results[idx[i]]]

IdleThreads ==
    /\ th_initial = <<>>
    /\ th_registry = <<>>
    /\ th_calls = <<>>
    /\ th_pc = <<>>
    /\ th_out = <<>>

IdleAnalyze ==
    /\ an_pc = "off"
    /\ an_config = <<>>
    /\ an_entities = <<>>
    /\ an_engine = <<>>

IdleRegistry ==
    /\ reg_registry = <<>>
    /\ reg_latest = <<>>
    /\ reg_made = 0
    /\ reg_last = [op |-> "off"]

IdleResolve ==
    /\ rc_pc = "idle"
    /\ rc_results = <<>>
    /\ rc_filtered = <<>>

IdleHash ==
    /\ h_pc = "off"
    /\ h_mode = "off"
    /\ h_secret = NoValue
    /\ h_text = <<>>
    /\ h_results = <<>>
    /\ h_redacted = <<>>
    /\ h_ref = [kind |-> "none"]

IdleRedact ==
    /\ rd_pc = "off"
    /\ rd_config = <<>>
    /\ rd_document = <<>>
    /\ rd_strategy = NoValue
    /\ rd_analysis = <<>>
    /\ rd_out = <<>>

IdlePipeline ==
    /\ p_pc = "off"
    /\ p_call = <<>>
    /\ p_config = <<>>
    /\ p_source = <<>>
    /\ p_read = 0
    /\ p_doc = <<>>
    /\ p_stage = 0
    /\ p_processed = <<>>
    /\ p_writer = [pending |-> <<>>, dest |-> <<>>]
    /\ p_log = <<>>
    /\ p_error = <<>>

InitResolve ==
    /\ rc_pc = "call"
    /\ rc_results \in SeqsUpTo(ValidEntities, MaxEntities)
    /\ rc_filtered = <<>>
    /\ IdleHash
    /\ IdleRedact
    /\ IdlePipeline
    /\ IdleRegistry
    /\ IdleThreads
    /\ IdleAnalyze

CallResolve ==
    /\ rc_pc = "call"
    /\ rc_filtered' = ResolveIdx(rc_results)
    /\ rc_pc' = "done"
    /\ UNCHANGED rc_results
    /\ UNCHANGED <<hashVars, redactVars, pipeVars, registryVars, threadVars, analyzeVars>>

NextResolve == CallResolve

SpecResolve == InitResolve /\ [][NextResolve]_vars

(***************************************************************************)
(* Claims about _resolve_conflicts.                                        *)
(***************************************************************************)
Survives(i) == i \in Range(rc_filtered)

\* C1: for every input list with 0 <= start < end, in any input order, no two
\* entities of the list returned by _resolve_conflicts overlap.
C1_NoOverlapInResult ==
    rc_pc = "done" =>
        \A i, j \in DOMAIN rc_filtered :
            i # j => ~overlaps(rc_results[rc_filtered[i]], rc_results[rc_filtered[j]])

\* C1 witness: two overlapping entities went in and the call has returned.
C1_Witness ==
    /\ rc_pc = "done"
    /\ \E i, j \in DOMAIN rc_results :
          i # j /\ overlaps(rc_results[i], rc_results[j])
    /\ Len(rc_filtered) >= 2

\* C2 as stated: of two overlapping input entities of which one is in the
\* result, the one in the result is never the one with the strictly lower
\* (type priority, score, span length) tuple.
C2_SurvivorNeverLower ==
    rc_pc = "done" =>
        \A i, j \in DOMAIN rc_results :
            (/\ i # j
             /\ overlaps(rc_results[i], rc_results[j])
             /\ Survives(i) /\ ~Survives(j))
            => ~TupleGreater(get_priority(rc_results[j]), get_priority(rc_results[i]))

\* C2 amended: of two overlapping input entities of which one is in the
\* result, the one in the result has the greater or equal tuple, unless the
\* other one overlaps a third input entity whose tuple is greater than or equal
\* to its own (the entity that displaced it).
C2_SurvivorLowerOnlyBehindThird ==
    rc_pc = "done" =>
        \A i, j \in DOMAIN rc_results :
            (/\ i # j
             /\ overlaps(rc_results[i], rc_results[j])
             /\ Survives(i) /\ ~Survives(j)
             /\ TupleGreater(get_priority(rc_results[j]), get_priority(rc_results[i])))
            => \E k \in DOMAIN rc_results :
                  /\ k # i /\ k # j
                  /\ overlaps(rc_results[k], rc_results[j])
                  /\ ~TupleGreater(get_priority(rc_results[j]), get_priority(rc_results[k]))

\* C2 witness: an overlapping pair was decided in favour of the greater tuple.
C2_Witness ==
    /\ rc_pc = "done"
    /\ \E i, j \in DOMAIN rc_results :
          /\ i # j
          /\ overlaps(rc_results[i], rc_results[j])
          /\ Survives(i) /\ ~Survives(j)
          /\ TupleGreater(get_priority(rc_results[i]), get_priority(rc_results[j]))

\* No two entities of the input overlap.
NonOverlappingInput ==
    \A i, j \in DOMAIN rc_results :
        i # j => ~overlaps(rc_results[i], rc_results[j])

\* The priority of an entity's type in the fixed table, unlisted types
\* taking the default.
TypePriority(r) ==
    IF r.entity_type \in ListedTypes THEN ENTITY_PRIORITIES[r.entity_type]
    ELSE ENTITY_PRIORITIES["DEFAULT"]

\* a is preferred to b: higher type priority; on equal priority the higher
\* score; on equal priority and score the longer span.
Preferred(a, b) ==
    \/ TypePriority(a) > TypePriority(b)
    \/ TypePriority(a) = TypePriority(b) /\ a.score > b.score
    \/ /\ TypePriority(a) = TypePriority(b) /\ a.score = b.score
       /\ a.end - a.start > b.end - b.start

\* The entities at i and j overlap, and no other two entities of the input do.
OnlyOverlap(i, j) ==
    /\ i # j
    /\ overlaps(rc_results[i], rc_results[j])
    /\ \A a, b \in DOMAIN rc_results :
          (a # b /\ overlaps(rc_results[a], rc_results[b])) => {a, b} = {i, j}

C14_NonOverlappingReturnedSorted ==
    (rc_pc = "done" /\ NonOverlappingInput) =>
        /\ Len(rc_filtered) = Len(rc_results)
        /\ Range(rc_filtered) = DOMAIN rc_results
        /\ \A a, b \in DOMAIN rc_filtered :
              a < b => rc_results[rc_filtered[a]].start <= rc_results[rc_filtered[b]].start

\* Two touching entities handed over in descending order of start came back
\* in ascending order.
C14_Witness ==
    /\ rc_pc = "done"
    /\ Len(rc_results) = 2
    /\ rc_results[1].start = rc_results[2].end
    /\ rc_filtered = <<2, 1>>

\* C27: every input entity that is not in the result overlaps an entity that
\* is in the result.
C27_DroppedOverlapsSurvivor ==
    rc_pc = "done" =>
        \A i \in DOMAIN rc_results :
            ~Survives(i) =>
                \E j \in DOMAIN rc_results :
                    Survives(j) /\ overlaps(rc_results[i], rc_results[j])

\* Three entities, the second overlapping the two others, which do not
\* overlap each other: the second displaced the first, the third displaced
\* the second, and only the third was returned.
C27_Witness ==
    /\ rc_pc = "done"
    /\ Len(rc_results) = 3
    /\ overlaps(rc_results[1], rc_results[2])
    /\ overlaps(rc_results[2], rc_results[3])
    /\ ~overlaps(rc_results[1], rc_results[3])
    /\ rc_filtered = <<3>>

\* The orders in which the entities of the input can be handed over.
InputOrders ==
    {order \in [DOMAIN rc_results -> DOMAIN rc_results] :
        \A i \in DOMAIN rc_results : \E k \in DOMAIN rc_results : order[k] = i}

\* The spans and types of a list of entities, as a set.
SpansOf(entities) ==
    {<<entities[i].entity_type, entities[i].start, entities[i].end>> : i \in DOMAIN entities}

\* C30: handed the same entities in any other order, _resolve_conflicts
\* returns the same set of spans and entity types.
C30_SameResultInEveryOrder ==
    rc_pc = "done" =>
        \A order \in InputOrders :
            SpansOf(ResolveConflicts([k \in DOMAIN rc_results |-> rc_results[order[k]]]))
                = SpansOf(ResolveConflicts(rc_results))

\* Two entities over the same span, of different types with the same type
\* priority and the same score: the one handed over first was returned.
C30_Witness ==
    /\ rc_pc = "done"
    /\ Len(rc_results) = 2
    /\ rc_results[1].entity_type # rc_results[2].entity_type
    /\ rc_results[1].start = rc_results[2].start
    /\ rc_results[1].end = rc_results[2].end
    /\ get_priority(rc_results[1]) = get_priority(rc_results[2])
    /\ rc_filtered = <<1>>

(***************************************************************************)
(* Redactor._custom_hash_redaction                                         *)
(***************************************************************************)
Alphabet == {"a", "A", " "}

Whitespace == {" ", "\t", "\n", "\r"}

HashTypes == {"PERSON", "EMAIL_ADDRESS"}

Texts == SeqsUpTo(Alphabet, MaxTextLen)

\* Entities the detection engine can report for a text: 0 <= start < end <= len.
EntitiesIn(text) ==
    {[entity_type |-> t, start |-> s, end |-> e, score |-> 90] :
        t \in HashTypes, s \in 0..Len(text), e \in 0..Len(text)}

NonOverlapping(results) ==
    \A i, j \in DOMAIN results : i # j => ~overlaps(results[i], results[j])

\* The lists _custom_hash_redaction receives: the output of _resolve_conflicts.
HashInputs(text) ==
    {rs \in SeqsUpTo({r \in EntitiesIn(text) : r.start < r.end}, MaxHashEntities) :
        NonOverlapping(rs)}

\* Python slices text[a:b], clamped to the sequence.
Slice(seq, a, b) ==
    LET lo == IF a < 0 THEN 0 ELSE IF a > Len(seq) THEN Len(seq) ELSE a
        hi == IF b < 0 THEN 0 ELSE IF b > Len(seq) THEN Len(seq) ELSE b
    IN  IF lo >= hi THEN <<>> ELSE SubSeq(seq, lo + 1, hi)

\* str.lower() on the characters of the model.
LowerChar(c) == IF c = "A" THEN "a" ELSE c

\* Lower-casing left out.
LowerKeep(text) == text

Lower(text) == [i \in DOMAIN text |-> LowerChar(text[i])]

RECURSIVE LStrip(_)
LStrip(text) ==
    IF text # <<>> /\ text[1] \in Whitespace THEN LStrip(Tail(text)) ELSE text

RECURSIVE RStrip(_)
RStrip(text) ==
    IF text # <<>> /\ text[Len(text)] \in Whitespace
    THEN RStrip(SubSeq(text, 1, Len(text) - 1))
    ELSE text

\* str.strip()
Strip(text) == RStrip(LStrip(text))

\* re.sub(r'\s+', ' ', text): every maximal whitespace run becomes one space.
RECURSIVE CollapseWhitespace(_)
CollapseWhitespace(text) ==
    IF text = <<>> THEN <<>>
    ELSE IF text[1] \in Whitespace
         THEN <<" ">> \o CollapseWhitespace(LStrip(text))
         ELSE <<text[1]>> \o CollapseWhitespace(Tail(text))

\* normalized_text = re.sub(r'\s+', ' ', entity_text.lower().strip())
NormalizeEntityText(entity_text) == CollapseWhitespace(Strip(Lower(entity_text)))

DefaultKey == "default-key-change-me"

\* _get_encryption_key: config hmac_secret, with its default
GetEncryptionKey(secret) == IF secret = NoValue THEN DefaultKey ELSE secret

DigestPrefixLen == 12

\* hmac.new(secret, normalized_text, sha1).hexdigest()[:12], as an ideal keyed
\* hash: equal exactly when key and message are equal.
ShortDigest(key, msg) == [key |-> key, msg |-> msg, hexlen |-> DigestPrefixLen]

CharItem(c) == [kind |-> "char", ch |-> c, entity_type |-> "", digest |-> <<>>]

\* f"<{entity_type}:{short_digest}>"
Replacement(entity_type, digest) ==
    [kind |-> "token", ch |-> "", entity_type |-> entity_type, digest |-> <<digest>>]

\* sorted(results, key=lambda x: x.start, reverse=True): stable, descending.
RECURSIVE InsertByStartDesc(_, _)
InsertByStartDesc(sorted, r) ==
    IF sorted = <<>> THEN <<r>>
    ELSE IF sorted[Len(sorted)].start >= r.start
         THEN Append(sorted, r)
         ELSE Append(InsertByStartDesc(SubSeq(sorted, 1, Len(sorted) - 1), r),
                     sorted[Len(sorted)])

RECURSIVE SortedByStartDescFrom(_, _, _)
SortedByStartDescFrom(results, k, sorted) ==
    IF k > Len(results) THEN sorted
    ELSE SortedByStartDescFrom(results, k + 1, InsertByStartDesc(sorted, results[k]))

\* The results taken in the order given, without sorting.
SortedByStartDescKeep(results) == results

SortedByStartDesc(results) == SortedByStartDescFrom(results, 1, <<>>)

\* The token of one entity, computed from the original text.
TokenOf(secret, text, result) ==
    Replacement(result.entity_type,
                ShortDigest(GetEncryptionKey(secret),
                            NormalizeEntityText(Slice(text, result.start, result.end))))

\* The replacement loop.
RECURSIVE ReplaceFrom(_, _, _, _, _)
ReplaceFrom(secret, text, sorted, k, redacted) ==
    IF k > Len(sorted) THEN redacted
    ELSE ReplaceFrom(secret, text, sorted, k + 1,
            Slice(redacted, 0, sorted[k].start)
            \o <<TokenOf(secret, text, sorted[k])>>
            \o Slice(redacted, sorted[k].end, Len(redacted)))

CustomHashRedaction(secret, text, results) ==
    ReplaceFrom(secret, text, SortedByStartDesc(results), 1,
                [i \in DOMAIN text |-> CharItem(text[i])])

\* The tokens of a redacted text, left to right.
TokensOf(redacted) == SelectSeq(redacted, LAMBDA it : it.kind = "token")

\* The occurrences redacted in the current document: literal, type and token.
\* The k-th token from the left replaces the k-th entity by start offset.
Occurrences ==
    LET asc == SortedByStart(h_results)
        toks == TokensOf(h_redacted)
    IN  {[kind |-> "occ",
          literal |-> Slice(h_text, h_results[asc[k]].start, h_results[asc[k]].end),
          entity_type |-> h_results[asc[k]].entity_type,
          token |-> toks[k]] : k \in DOMAIN toks}

\* The calls made for free-text documents (pipeline whole-text path): any
\* text, any resolved entity list. _resolve_conflicts returns its entities in
\* ascending start order.
TextCalls ==
    {[text |-> t, results |-> rs] : t \in Texts, rs \in {<<>>}} \cup
    UNION {{[text |-> t, results |-> rs] :
               rs \in {x \in HashInputs(t) :
                          \A i \in 1..(Len(x) - 1) : x[i].start < x[i + 1].start}} :
           t \in Texts}

\* The calls made for the fields of structured rows (per-field path): a field
\* value that the detection engine reports as one entity, or as none.
FieldCalls ==
    {[text |-> t, results |-> rs] :
        t \in SeqsUpTo(Alphabet, MaxFieldLen), rs \in {<<>>}} \cup
    {[text |-> t,
      results |-> <<[entity_type |-> ty, start |-> 0, end |-> Len(t), score |-> 90]>>] :
        t \in SeqsUpTo(Alphabet, MaxFieldLen) \ {<<>>}, ty \in HashTypes}

InitHash ==
    /\ h_pc = "idle"
    /\ h_mode \in {"text", "rows"}
    /\ h_secret \in {NoValue, "s1"}
    /\ h_text = <<>>
    /\ h_results = <<>>
    /\ h_redacted = <<>>
    /\ h_ref = [kind |-> "none"]
    /\ IdleResolve
    /\ IdleRedact
    /\ IdlePipeline
    /\ IdleRegistry
    /\ IdleThreads
    /\ IdleAnalyze

\* One call of _custom_hash_redaction on the content of a document.
HashRedactText ==
    /\ h_pc = "idle"
    /\ h_mode = "text"
    /\ \E call \in TextCalls :
            /\ h_text' = call.text
            /\ h_results' = call.results
            /\ h_redacted' = CustomHashRedaction(h_secret, call.text, call.results)
    /\ h_pc' = "redacted"
    /\ UNCHANGED <<h_mode, h_secret, h_ref>>
    /\ UNCHANGED <<resolveVars, redactVars, pipeVars, registryVars, threadVars, analyzeVars>>

\* One call of _custom_hash_redaction on a field value of a row.
HashRedactField ==
    /\ h_pc = "idle"
    /\ h_mode = "rows"
    /\ \E call \in FieldCalls :
            /\ h_text' = call.text
            /\ h_results' = call.results
            /\ h_redacted' = CustomHashRedaction(h_secret, call.text, call.results)
    /\ h_pc' = "redacted"
    /\ UNCHANGED <<h_mode, h_secret, h_ref>>
    /\ UNCHANGED <<resolveVars, redactVars, pipeVars, registryVars, threadVars, analyzeVars>>

\* The run moves on to the next field, row or document. Of the occurrences
\* redacted so far in a run over rows, one (of at most MaxRefLen characters)
\* may be kept for comparison with later ones.
NextDocument ==
    /\ h_pc = "redacted"
    /\ h_ref' \in {h_ref} \cup
            (IF h_mode = "rows"
             THEN {o \in Occurrences : Len(o.literal) <= MaxRefLen}
             ELSE {})
    /\ h_pc' = "idle"
    /\ h_text' = <<>>
    /\ h_results' = <<>>
    /\ h_redacted' = <<>>
    /\ UNCHANGED <<h_mode, h_secret>>
    /\ UNCHANGED <<resolveVars, redactVars, pipeVars, registryVars, threadVars, analyzeVars>>

NextHash == HashRedactText \/ HashRedactField \/ NextDocument

SpecHash == InitHash /\ [][NextHash]_vars

(***************************************************************************)
(* Claims about the hash strategy.                                         *)
(***************************************************************************)
\* The words of a literal: its maximal runs of non-space characters.
RECURSIVE WordsOf(_, _)
WordsOf(text, word) ==
    IF text = <<>> THEN (IF word = <<>> THEN <<>> ELSE <<word>>)
    ELSE IF text[1] = " "
         THEN (IF word = <<>> THEN <<>> ELSE <<word>>) \o WordsOf(Tail(text), <<>>)
         ELSE WordsOf(Tail(text), Append(word, text[1]))

SameLetter(c, d) == c = d \/ {c, d} = {"a", "A"}

\* Two literals differ only in letter case, in leading or trailing spaces or
\* in the length of internal runs of spaces.
CaseSpaceVariants(x, y) ==
    LET wx == WordsOf(x, <<>>)
        wy == WordsOf(y, <<>>)
    IN  /\ Len(wx) = Len(wy)
        /\ \A i \in DOMAIN wx :
              /\ Len(wx[i]) = Len(wy[i])
              /\ \A j \in DOMAIN wx[i] : SameLetter(wx[i][j], wy[i][j])

\* The occurrences that can be compared in a state: those of the current
\* document and the one kept from an earlier document.
Compared == Occurrences \cup (IF h_ref.kind = "occ" THEN {h_ref} ELSE {})

RECURSIVE Substituted(_, _, _, _)
Substituted(secret, text, results, pos) ==
    IF pos >= Len(text) THEN <<>>
    ELSE LET here == {i \in DOMAIN results : results[i].start = pos}
         IN  IF here = {}
             THEN <<CharItem(text[pos + 1])>> \o Substituted(secret, text, results, pos + 1)
             ELSE LET r == results[CHOOSE i \in here : TRUE]
                  IN  <<Replacement(r.entity_type,
                                    ShortDigest(GetEncryptionKey(secret),
                                                NormalizeEntityText(Slice(text, r.start, r.end))))>>
                      \o Substituted(secret, text, results, r.end)

\* C25: for entities that do not overlap pairwise, _custom_hash_redaction
\* returns the text with the characters of every span replaced by that
\* entity's token, computed from the original text, and every other
\* character kept in place: the substitution of all spans at once.
C25_SimultaneousSubstitution ==
    h_pc = "redacted" => h_redacted = Substituted(h_secret, h_text, h_results, 0)

\* Two entities were replaced, the first over more than one character, so
\* that the offsets in front of the second no longer are those of the text.
C25_Witness ==
    /\ h_pc = "redacted"
    /\ Len(h_results) = 2
    /\ h_results[1].start < h_results[2].start
    /\ h_results[1].end - h_results[1].start > 1
    /\ Len(TokensOf(h_redacted)) = 2
    /\ Len(h_redacted) < Len(h_text)

(***************************************************************************)
(* Redactor.redact                                                         *)
(***************************************************************************)
\* A Python dict as a function from its keys; the empty dict.
EmptyDict == [k \in {} |-> NoValue]

\* {**d, key: value}
DictWith(d, key, value) ==
    [k \in DOMAIN d \cup {key} |-> IF k = key THEN value ELSE d[k]]

\* A str as the sequence of its characters; None.
StrContent(chars) ==
    [null |-> FALSE, items |-> [i \in DOMAIN chars |-> CharItem(chars[i])]]

NoneContent == [null |-> TRUE, items |-> <<>>]

CharsOf(items) == [i \in DOMAIN items |-> items[i].ch]

\* A document: a dict with the optional keys "content" and "metadata".
Document(has_content, content, has_metadata, metadata) ==
    [has_content |-> has_content, content |-> content,
     has_metadata |-> has_metadata, metadata |-> metadata]

\* document.get("metadata", {})
MetadataOf(document) ==
    IF document.has_metadata THEN document.metadata ELSE EmptyDict

Strategies == {"replace", "mask", "hash", "encrypt"}

\* _get_config_value(key, default) of a dict configuration
GetConfigValue(config, key, default) ==
    IF key \in DOMAIN config THEN config[key] ELSE default

\* A _build_operators whose else branch falls back to replace.
BuildOperatorsDefault(strategy) ==
    IF strategy \in {"replace", "mask", "hash", "encrypt"} THEN strategy ELSE "replace"

\* _build_operators: the operator name, NoValue where it raises
BuildOperators(strategy) ==
    IF strategy \in {"replace", "mask", "hash", "encrypt"} THEN strategy ELSE NoValue

MaskChars == 100

\* What the anonymizer engine puts in place of one entity under an operator:
\* replace: the literal [REDACTED]; mask: up to 100 masking characters;
\* encrypt: a ciphertext of the entity text under the key; hash: a digest.
OperatorOutput(operator, key, entity_text) ==
    CASE operator = "replace" ->
            <<[kind |-> "literal", ch |-> "[REDACTED]", entity_type |-> "", digest |-> <<>>]>>
      [] operator = "mask" ->
            [i \in DOMAIN entity_text |->
                IF i <= MaskChars THEN CharItem("*") ELSE CharItem(entity_text[i])]
      [] operator = "encrypt" ->
            <<[kind |-> "cipher", ch |-> "", entity_type |-> "",
               digest |-> <<[key |-> key, msg |-> entity_text, hexlen |-> 0]>>]>>
      [] OTHER ->
            <<[kind |-> "sha256", ch |-> "", entity_type |-> "",
               digest |-> <<[key |-> "", msg |-> entity_text, hexlen |-> 0]>>]>>

RECURSIVE AnonymizeFrom(_, _, _, _, _, _)
AnonymizeFrom(operator, key, text, sorted, k, redacted) ==
    IF k > Len(sorted) THEN redacted
    ELSE AnonymizeFrom(operator, key, text, sorted, k + 1,
            Slice(redacted, 0, sorted[k].start)
            \o OperatorOutput(operator, key, Slice(text, sorted[k].start, sorted[k].end))
            \o Slice(redacted, sorted[k].end, Len(redacted)))

\* self.anonymizer.anonymize(text, analyzer_results, operators={"DEFAULT": op})
Anonymize(operator, key, text, results) ==
    AnonymizeFrom(operator, key, text, SortedByStartDesc(results), 1,
                  [i \in DOMAIN text |-> CharItem(text[i])])

RedactorError(kind, strategy) ==
    [status |-> "RedactorError", kind |-> kind, strategy |-> strategy,
     applied |-> NoValue, document |-> <<>>]

\* A metadata count taken before conflict resolution.
RedactedCountRaw(analysis_results, results) == Len(analysis_results)

\* "redacted_entities": len(results)
RedactedCount(analysis_results, results) == Len(results)

\* redact(document, strategy=strategy_arg), given what the detection engine
\* and the anonymizer engine do.
RedactDoc(config, document, strategy_arg, analysis, anonymizer_raises) ==
    IF ~document.has_content
    THEN RedactorError("missing_content", NoValue)
    ELSE IF analysis.raises
    THEN RedactorError("failed", NoValue)
    ELSE
      LET text == CharsOf(document.content.items)
          results == ResolveConflicts(analysis.results)
          strategy == IF strategy_arg = NoValue
                      THEN GetConfigValue(config, "redaction_strategy", "replace")
                      ELSE strategy_arg
          key == GetEncryptionKey(GetConfigValue(config, "hmac_secret", NoValue))
          done(applied, items) ==
              [status |-> "ok", kind |-> "", strategy |-> strategy, applied |-> applied,
               document |->
                  Document(TRUE, [null |-> FALSE, items |-> items], TRUE,
                      DictWith(DictWith(MetadataOf(document),
                                   "redacted_entities",
                                   RedactedCount(analysis.results, results)),
                               "redaction_strategy", strategy))]
      IN  IF strategy = "hash"
          THEN done("hash", CustomHashRedaction(
                                GetConfigValue(config, "hmac_secret", NoValue),
                                text, results))
          ELSE IF BuildOperators(strategy) = NoValue
          THEN RedactorError("unknown_strategy", strategy)
          ELSE IF anonymizer_raises
          THEN RedactorError("failed", strategy)
          ELSE done(BuildOperators(strategy),
                    Anonymize(BuildOperators(strategy), key, text, results))


ContentAlphabet == {"a", "A"}

Contents ==
    {NoneContent} \cup {StrContent(t) : t \in SeqsUpTo(ContentAlphabet, MaxContentLen)}

\* Metadata as readers and callers supply it, with and without earlier results.
InputMetadata ==
    {EmptyDict,
     DictWith(EmptyDict, "source", "in.txt"),
     DictWith(DictWith(DictWith(EmptyDict, "source", "in.txt"),
                       "redacted_entities", 7), "redaction_strategy", "earlier")}

InputDocuments ==
    {Document(hc, c, hm, m) :
        hc \in BOOLEAN, c \in Contents, hm \in BOOLEAN, m \in InputMetadata}

\* A document without a key carries no value for it.
WellFormedDocument(d) ==
    /\ d.has_content \/ d.content = NoneContent
    /\ d.has_metadata \/ d.metadata = EmptyDict

Configs ==
    {EmptyDict,
     DictWith(EmptyDict, "redaction_strategy", "hash"),
     DictWith(DictWith(EmptyDict, "redaction_strategy", "mask"), "hmac_secret", "s1"),
     DictWith(DictWith(EmptyDict, "redaction_strategy", "rot13"), "hmac_secret", "s1")}

StrategyArguments == {NoValue, "hash", "encrypt", "shuffle"}

DetectedIn(text) ==
    {[entity_type |-> "PERSON", start |-> s, end |-> e, score |-> 90] :
        s \in 0..Len(text), e \in 0..Len(text)}

\* What self.analyzer.analyze(text) can do: raise, or return entities inside
\* the text. The engine raises on a text that is None.
Analyses(content) ==
    {[raises |-> TRUE, results |-> <<>>]} \cup
    (IF content.null THEN {}
     ELSE {[raises |-> FALSE, results |-> rs] :
              rs \in SeqsUpTo({r \in DetectedIn(content.items) : r.start < r.end},
                              MaxDetected)})

InitRedact ==
    /\ rd_pc = "call"
    /\ rd_config \in Configs
    /\ rd_document \in {d \in InputDocuments : WellFormedDocument(d)}
    /\ rd_strategy \in StrategyArguments
    /\ rd_analysis = <<>>
    /\ rd_out = <<>>
    /\ IdleResolve
    /\ IdleHash
    /\ IdlePipeline
    /\ IdleRegistry
    /\ IdleThreads
    /\ IdleAnalyze

\* One call redact(rd_document, strategy=rd_strategy).
Redact ==
    /\ rd_pc = "call"
    /\ \E analysis \in Analyses(rd_document.content), anonymizer_raises \in BOOLEAN :
          /\ rd_analysis' = analysis
          /\ rd_out' = RedactDoc(rd_config, rd_document, rd_strategy,
                                 analysis, anonymizer_raises)
    /\ rd_pc' = "done"
    /\ UNCHANGED <<rd_config, rd_document, rd_strategy>>
    /\ UNCHANGED <<resolveVars, hashVars, pipeVars, registryVars, threadVars, analyzeVars>>

NextRedact == Redact

SpecRedact == InitRedact /\ [][NextRedact]_vars

(***************************************************************************)
(* Claims about Redactor.redact.                                           *)
(***************************************************************************)
\* The substitution that was performed on the content, read off the result:
\* the kinds of the items put in place of the entities.
SubstitutionSeen ==
    LET kinds == {rd_out.document.content.items[i].kind :
                     i \in DOMAIN rd_out.document.content.items}
        stars == \E i \in DOMAIN rd_out.document.content.items :
                    rd_out.document.content.items[i].ch = "*"
    IN  (IF "token" \in kinds THEN {"hash"} ELSE {}) \cup
        (IF "literal" \in kinds THEN {"replace"} ELSE {}) \cup
        (IF "cipher" \in kinds THEN {"encrypt"} ELSE {}) \cup
        (IF stars THEN {"mask"} ELSE {})

\* C4: when redact succeeds, the returned metadata is the input metadata
\* extended with exactly redacted_entities = the number of entities that
\* survive conflict resolution and redaction_strategy = the strategy applied;
\* every other key keeps its input value.
C4_MetadataExtendedByTwoKeys ==
    (rd_pc = "done" /\ rd_out.status = "ok") =>
        LET before == MetadataOf(rd_document)
            after == rd_out.document.metadata
        IN  /\ rd_out.document.has_metadata
            /\ DOMAIN after = DOMAIN before \cup {"redacted_entities", "redaction_strategy"}
            /\ after["redacted_entities"] = Len(ResolveIdx(rd_analysis.results))
            /\ after["redaction_strategy"] = rd_out.applied
            /\ SubstitutionSeen \subseteq {after["redaction_strategy"]}
            /\ \A k \in DOMAIN before \ {"redacted_entities", "redaction_strategy"} :
                  after[k] = before[k]

\* C4 witness: a successful redact of a document with a source key, in which
\* conflict resolution dropped an entity and a substitution was made.
C4_Witness ==
    /\ rd_pc = "done"
    /\ rd_out.status = "ok"
    /\ "source" \in DOMAIN MetadataOf(rd_document)
    /\ rd_out.document.metadata["redacted_entities"] < Len(rd_analysis.results)
    /\ rd_out.document.metadata["redacted_entities"] > 0
    /\ SubstitutionSeen # {}

\* C15 as stated: redact fails with the missing-content RedactorError, and
\* returns no document, whenever the document carries no text: when the
\* content key is absent or when its value is None.
C15_NoTextIsMissingContent ==
    (rd_pc = "done" /\ (~rd_document.has_content \/ rd_document.content.null)) =>
        /\ rd_out.status = "RedactorError"
        /\ rd_out.kind = "missing_content"
        /\ rd_out.document = <<>>

\* A document {"content": None}: the key is there, the analyzer was called
\* on None, and the error is the wrapped failure of the analyzer.
C15_Witness ==
    /\ rd_pc = "done"
    /\ rd_document.has_content
    /\ rd_document.content.null
    /\ rd_analysis.raises
    /\ rd_out.status = "RedactorError"
    /\ rd_out.kind = "failed"

\* The strategy redact works with: the argument, or the configured default.
EffectiveStrategy ==
    IF rd_strategy = NoValue
    THEN GetConfigValue(rd_config, "redaction_strategy", "replace")
    ELSE rd_strategy

ValidStrategies == {"replace", "mask", "hash", "encrypt"}

\* C16 as stated: for every strategy name outside the four, from the argument
\* or from the configuration, redact fails with 'Unknown redaction strategy'
\* and returns no document; for the four names it never fails with it.
C16_UnknownStrategyAlwaysReported ==
    rd_pc = "done" =>
        /\ EffectiveStrategy \notin ValidStrategies =>
              /\ rd_out.status = "RedactorError"
              /\ rd_out.kind = "unknown_strategy"
              /\ rd_out.document = <<>>
        /\ EffectiveStrategy \in ValidStrategies => rd_out.kind # "unknown_strategy"

\* C16, corrected: on a document that has a content key and on which detection
\* succeeded, every strategy name outside the four makes redact fail with
\* 'Unknown redaction strategy: <name>' and return no document; without a
\* content key, or when detection raised, redact fails with that earlier
\* error whatever the strategy; for the four names it never fails with
\* 'Unknown redaction strategy'.
C16_UnknownStrategyAfterDetection ==
    rd_pc = "done" =>
        /\ (/\ EffectiveStrategy \notin ValidStrategies
            /\ rd_document.has_content
            /\ ~rd_analysis.raises) =>
              /\ rd_out.status = "RedactorError"
              /\ rd_out.kind = "unknown_strategy"
              /\ rd_out.strategy = EffectiveStrategy
              /\ rd_out.document = <<>>
        /\ (/\ EffectiveStrategy \notin ValidStrategies
            /\ (~rd_document.has_content \/ rd_analysis.raises)) =>
              /\ rd_out.status = "RedactorError"
              /\ rd_out.kind = IF rd_document.has_content THEN "failed"
                               ELSE "missing_content"
        /\ EffectiveStrategy \in ValidStrategies => rd_out.kind # "unknown_strategy"

\* The configuration names rot13, no strategy was passed, entities were
\* detected in the content, and redact reported the unknown strategy.
C16_Witness ==
    /\ rd_pc = "done"
    /\ rd_strategy = NoValue
    /\ EffectiveStrategy = "rot13"
    /\ rd_document.has_content
    /\ ~rd_analysis.raises
    /\ rd_analysis.results # <<>>
    /\ rd_out.kind = "unknown_strategy"
    /\ rd_out.strategy = "rot13"

(***************************************************************************)
(* Pipeline.process                                                        *)
(*                                                                         *)
(* A row is a dict from column names to cell texts; the readers yield      *)
(* every cell as a str. A dict is a function from its keys; where the      *)
(* program walks a dict or a row in insertion order the model walks the    *)
(* keys in the order of Columns.                                           *)
(***************************************************************************)
MaxDocs == 2         \* number of documents a reader yields in one run

Columns == <<"ID", "Email">>

\* list(d.keys()) of a row or of a dict built from a row
KeysOf(d) == SelectSeq(Columns, LAMBDA c : c \in DOMAIN d)

\* An exception: its class and its message, the message as a list of parts.
Error(type, message) == [type |-> type, message |-> message]

\* What a call does: it returns a document or raises.
Returned(document) == [error |-> <<>>, document |-> <<document>>]

Raised(error) == [error |-> <<error>>, document |-> <<>>]

\* document.get("metadata", {}).get(key, default)
GetMeta(document, key, default) ==
    IF key \in DOMAIN MetadataOf(document) THEN MetadataOf(document)[key] ELSE default

\* document["metadata"][key] = value
SetMeta(document, key, value) ==
    [document EXCEPT !.has_metadata = TRUE,
                     !.metadata = DictWith(MetadataOf(document), key, value)]

\* The configuration of a run. The nested keys preprocessors.field_selector.fields
\* and postprocessors.dict_merger.preserve_unselected are kept flat as "fields"
\* and "preserve_unselected".
PipelineConfigs ==
    {EmptyDict,
     DictWith(DictWith(EmptyDict, "fields", <<"Email">>), "redaction_strategy", "hash"),
     DictWith(DictWith(EmptyDict, "fields", <<"Email">>), "preserve_unselected", FALSE),
     DictWith(EmptyDict, "fields", <<"Phone">>)}

\* TextFileReader._read_file: one document per file
TextDocument(chars, filename) ==
    Document(TRUE, StrContent(chars), TRUE,
             DictWith(DictWith(EmptyDict, "filename", filename), "path", filename))

\* CSVReader.read / XLSXReader.read: one document per row
RowDocument(row_data, row_num) ==
    Document(TRUE, NoneContent, TRUE,
             DictWith(DictWith(DictWith(EmptyDict, "source", "in.csv"),
                               "row_number", row_num),
                      "original_data", row_data))

CellText(chars) == [i \in DOMAIN chars |-> CharItem(chars[i])]

FileTexts == {<<" ", "a">>, <<" ">>}

\* The files of the input directory, as sorted(path.glob("*.txt")) orders them.
FileNames == <<"a.txt", "b.txt", "c.txt", "d.txt">>

Rows ==
    {[c \in {"ID", "Email"} |-> CellText(IF c = "ID" THEN <<"a">> ELSE t)] :
        t \in {<<"a", "A">>}}

\* What reader.read() yields over a run: the files of a path, or the rows of a sheet.
Sources(reader_type) ==
    IF reader_type = "text_file"
    THEN {[i \in DOMAIN ts |-> TextDocument(ts[i], FileNames[i])] :
              ts \in SeqsUpTo(FileTexts, MaxDocs)}
    ELSE {[i \in DOMAIN rs |-> RowDocument(rs[i], i + 1)] :
              rs \in SeqsUpTo(Rows, MaxDocs)}

(***************************************************************************)
(* Preprocessors and postprocessors.                                       *)
(***************************************************************************)
\* re.sub(r" +", " ", content)
RECURSIVE CollapseSpaces(_)
CollapseSpaces(text) ==
    IF text = <<>> THEN <<>>
    ELSE IF text[1] = " " /\ Len(text) > 1 /\ text[2] = " "
         THEN CollapseSpaces(Tail(text))
         ELSE <<text[1]>> \o CollapseSpaces(Tail(text))

\* WhitespaceNormalizer.process
WhitespaceNormalizer(document) ==
    IF ~document.has_content
    THEN Raised(Error("PreprocessorError", <<"Document must contain 'content' key">>))
    ELSE IF document.content.null
    THEN Raised(Error("PreprocessorError",
                      <<"Failed to normalize whitespace: ",
                        "'NoneType' object has no attribute 'replace'">>))
    ELSE Returned([document EXCEPT !.content =
                      StrContent(Strip(CollapseSpaces(
                          [i \in DOMAIN document.content.items |->
                              IF document.content.items[i].ch = "\t"
                              THEN " " ELSE document.content.items[i].ch])))])

\* TextCleaner.process with its defaults, on texts without control characters,
\* curly quotes or repeated punctuation
TextCleaner(document) ==
    IF ~document.has_content
    THEN Raised(Error("PreprocessorError", <<"Document must contain 'content' key">>))
    ELSE IF document.content.null
    THEN Raised(Error("PreprocessorError",
                      <<"Failed to clean text: ", "expected string or bytes-like object">>))
    ELSE Returned(document)

\* FieldSelectorPreprocessor.process
FieldSelector(config, document) ==
    LET original_data == GetMeta(document, "original_data", EmptyDict)
        fields == GetConfigValue(config, "fields", <<>>)
        selected_fields ==
            IF fields = <<>> THEN KeysOf(original_data)
            ELSE SelectSeq(fields, LAMBDA f : f \in DOMAIN original_data)
        selected_for_redaction ==
            [f \in Range(selected_fields) |-> original_data[f]]
    IN  IF DOMAIN original_data = {}
        THEN Returned(document)
        ELSE Returned(
                [SetMeta(SetMeta(document, "selected_for_redaction", selected_for_redaction),
                         "selected_fields", selected_fields)
                 EXCEPT !.has_content = TRUE, !.content = NoneContent])

\* FormatPreserver.process
FormatPreserver(document) ==
    IF ~document.has_content
    THEN Raised(Error("KeyError", <<"'content'">>))
    ELSE Returned(document)

\* re.sub(r'(\[REDACTED\]\s*)+', '[REDACTED] ', content)
RECURSIVE SkipRedactedRun(_)
SkipRedactedRun(items) ==
    IF items # <<>> /\ (items[1].kind = "literal" \/ items[1].ch \in Whitespace)
    THEN SkipRedactedRun(Tail(items))
    ELSE items

RECURSIVE MergeConsecutive(_)
MergeConsecutive(items) ==
    IF items = <<>> THEN <<>>
    ELSE IF items[1].kind = "literal"
         THEN <<items[1], CharItem(" ")>> \o MergeConsecutive(SkipRedactedRun(items))
         ELSE <<items[1]>> \o MergeConsecutive(Tail(items))

\* re.sub(r'\s+', ' ', content).strip() on a redacted text
RECURSIVE CollapseItems(_)
CollapseItems(items) ==
    IF items = <<>> THEN <<>>
    ELSE IF items[1].ch \in Whitespace
         THEN IF Len(items) > 1 /\ items[2].ch \in Whitespace
              THEN CollapseItems(Tail(items))
              ELSE <<CharItem(" ")>> \o CollapseItems(Tail(items))
         ELSE <<items[1]>> \o CollapseItems(Tail(items))

RECURSIVE StripItems(_)
StripItems(items) ==
    IF items # <<>> /\ items[1].ch \in Whitespace THEN StripItems(Tail(items))
    ELSE IF items # <<>> /\ items[Len(items)].ch \in Whitespace
    THEN StripItems(SubSeq(items, 1, Len(items) - 1))
    ELSE items

\* RedactionCleaner.process, on texts without punctuation
RedactionCleaner(document) ==
    IF ~document.has_content
    THEN Raised(Error("KeyError", <<"'content'">>))
    ELSE IF document.content.null
    THEN Raised(Error("TypeError", <<"expected string or bytes-like object">>))
    ELSE Returned([document EXCEPT !.content.items =
                      StripItems(CollapseItems(MergeConsecutive(@)))])

\* redacted_data before the selected fields are put in
MergeBaseEmpty(original_data, preserve_unselected) == EmptyDict

MergeBase(original_data, preserve_unselected) ==
    IF preserve_unselected THEN original_data ELSE EmptyDict

\* for field in selected_fields: if field in redacted_fields: redacted_data[field] = ...
RECURSIVE MergeFrom(_, _, _, _)
MergeFrom(selected_fields, redacted_fields, k, redacted_data) ==
    IF k > Len(selected_fields) THEN redacted_data
    ELSE MergeFrom(selected_fields, redacted_fields, k + 1,
            IF selected_fields[k] \in DOMAIN redacted_fields
            THEN DictWith(redacted_data, selected_fields[k],
                          redacted_fields[selected_fields[k]])
            ELSE redacted_data)

\* DictMergerPostprocessor.process
DictMerger(config, document) ==
    LET original_data == GetMeta(document, "original_data", EmptyDict)
        selected_fields == GetMeta(document, "selected_fields", <<>>)
        redacted_fields == GetMeta(document, "redacted_fields", EmptyDict)
        preserve_unselected == GetConfigValue(config, "preserve_unselected", TRUE)
    IN  IF DOMAIN redacted_fields = {}
        THEN Returned(document)
        ELSE Returned(SetMeta(document, "redacted_data",
                MergeFrom(selected_fields, redacted_fields, 1,
                          MergeBase(original_data, preserve_unselected))))

\* The names registered by the packages.
RegisteredPreprocessors == {"whitespace_normalizer", "text_cleaner", "field_selector"}

RegisteredPostprocessors == {"redaction_cleaner", "format_preserver", "dict_merger"}

\* ComponentRegistry.get of a name that is not registered
NotFound(component_type, name) ==
    Error("RegistrationError", <<component_type, " '", name, "' not found">>)

\* One turn of the loop of _preprocess_document: create the component, call process.
Preprocess(config, name, document) ==
    IF name \notin RegisteredPreprocessors THEN Raised(NotFound("preprocessor", name))
    ELSE IF name = "field_selector" THEN FieldSelector(config, document)
    ELSE IF name = "text_cleaner" THEN TextCleaner(document)
    ELSE WhitespaceNormalizer(document)

\* One turn of the loop of _postprocess_document.
Postprocess(config, name, document) ==
    IF name \notin RegisteredPostprocessors THEN Raised(NotFound("postprocessor", name))
    ELSE IF name = "dict_merger" THEN DictMerger(config, document)
    ELSE IF name = "redaction_cleaner" THEN RedactionCleaner(document)
    ELSE FormatPreserver(document)

\* The dict handed to process, as it is when process has returned or raised.
\* field_selector and dict_merger assign into the dict they were given and
\* return that dict; the other processors build a new dict {**document, ...}.
PassedAfterPreprocess(config, name, document) ==
    LET outcome == Preprocess(config, name, document)
    IN  IF name = "field_selector" /\ outcome.error = <<>> THEN outcome.document[1]
        ELSE document

PassedAfterPostprocess(config, name, document) ==
    LET outcome == Postprocess(config, name, document)
    IN  IF name = "dict_merger" /\ outcome.error = <<>> THEN outcome.document[1]
        ELSE document

(***************************************************************************)
(* The redaction stage of process.                                         *)
(***************************************************************************)
\* The exception a failed redact raises.
RedactorErrorOf(out) ==
    Error("RedactorError",
          CASE out.kind = "missing_content" -> <<"Document must contain 'content' key">>
            [] out.kind = "unknown_strategy" ->
                   <<"Unknown redaction strategy: ", out.strategy>>
            [] OTHER -> <<"Failed to redact document: ", "engine failure">>)

\* What the engines do on one text of a run: the analyzer raises, finds nothing,
\* or finds the whole text as one entity; the anonymizer may raise.
EngineRuns(items) ==
    {[analysis |-> a, anonymizer_raises |-> ar] :
        a \in {[raises |-> TRUE, results |-> <<>>],
               [raises |-> FALSE, results |-> <<>>]} \cup
              (IF items = <<>> THEN {}
               ELSE {[raises |-> FALSE,
                      results |-> <<[entity_type |-> "PERSON", start |-> 0,
                                     end |-> Len(items), score |-> 90]>>]}),
        ar \in BOOLEAN}

\* self.redactor.redact(doc)
RedactText(config, document, engine) ==
    LET out == RedactDoc(config, document, NoValue, engine.analysis,
                         engine.anonymizer_raises)
    IN  IF out.status = "ok" THEN Returned(out.document) ELSE Raised(RedactorErrorOf(out))

\* A field document that drops the value.
FieldDocBlank(value) == Document(TRUE, [null |-> FALSE, items |-> <<>>], TRUE, EmptyDict)

\* field_doc = {"content": str(value), "metadata": {}}
FieldDoc(value) == Document(TRUE, [null |-> FALSE, items |-> value], TRUE, EmptyDict)

\* total_entities counted per field instead of per entity.
TotalEntitiesPerField(total_entities, redacted_doc) == total_entities + 1

\* total_entities += redacted_doc.get("metadata", {}).get("redacted_entities", 0)
TotalEntities(total_entities, redacted_doc) ==
    total_entities + GetMeta(redacted_doc, "redacted_entities", 0)

\* The loop of _redact_fields over selected_for_redaction.items().
RECURSIVE RedactFieldsFrom(_, _, _, _, _, _, _, _)
RedactFieldsFrom(config, document, selected, order, k, engines, redacted_fields, total_entities) ==
    IF k > Len(order)
    THEN Returned(SetMeta(SetMeta(document, "redacted_fields", redacted_fields),
                          "redacted_entities", total_entities))
    ELSE LET field == order[k]
             out == RedactDoc(config, FieldDoc(selected[field]), NoValue,
                              engines[field].analysis,
                              engines[field].anonymizer_raises)
         IN  IF out.status # "ok" THEN Raised(RedactorErrorOf(out))
             ELSE RedactFieldsFrom(config, document, selected, order, k + 1, engines,
                      DictWith(redacted_fields, field, out.document.content.items),
                      TotalEntities(total_entities, out.document))

\* The calls of self.redactor.redact that the loop has made, up to the first
\* one that raised, each with what the engines did in it.
RECURSIVE FieldRedactions(_, _, _, _, _)
FieldRedactions(config, selected, order, k, engines) ==
    IF k > Len(order) THEN <<>>
    ELSE LET field == order[k]
             out == RedactDoc(config, FieldDoc(selected[field]), NoValue,
                              engines[field].analysis,
                              engines[field].anonymizer_raises)
         IN  <<[field |-> field, document |-> FieldDoc(selected[field]), out |-> out,
                engine |-> engines[field]]>>
             \o (IF out.status # "ok" THEN <<>>
                 ELSE FieldRedactions(config, selected, order, k + 1, engines))

\* _redact_fields(document)
RedactFields(config, document, engines) ==
    LET selected_for_redaction == GetMeta(document, "selected_for_redaction", EmptyDict)
    IN  IF DOMAIN selected_for_redaction = {}
        THEN Returned(document)
        ELSE RedactFieldsFrom(config, document, selected_for_redaction,
                              KeysOf(selected_for_redaction), 1, engines, EmptyDict, 0)

\* if selected_for_redaction:
SelectedForRedaction(document) ==
    DOMAIN GetMeta(document, "selected_for_redaction", EmptyDict) # {}

(***************************************************************************)
(* The calls of process.                                                   *)
(***************************************************************************)
PreprocessorLists ==
    {<<>>, <<"field_selector">>, <<"whitespace_normalizer">>,
     <<"whitespace_normalizer", "field_selector">>,
     <<"text_cleaner", "no_such_preprocessor">>}

PostprocessorLists ==
    {<<>>, <<"dict_merger">>, <<"redaction_cleaner">>,
     <<"format_preserver", "dict_merger">>,
     <<"format_preserver", "no_such_postprocessor">>}

\* Writers with a close method.
ClosableWriters == {"csv_file", "xlsx_file"}

Outputs ==
    {[writer_type |-> "stdout", output_path |-> NoValue],
     [writer_type |-> "text_file", output_path |-> NoValue],
     [writer_type |-> "text_file", output_path |-> "out.txt"],
     [writer_type |-> "text_file", output_path |-> "out/"],
     [writer_type |-> "csv_file", output_path |-> "out.csv"],
     [writer_type |-> "xlsx_file", output_path |-> "out.xlsx"]}

Calls ==
    {[reader_type |-> rt, writer_type |-> o.writer_type, output_path |-> o.output_path,
      preprocessors |-> pre, postprocessors |-> post] :
        rt \in {"text_file", "csv_file"}, o \in Outputs,
        pre \in PreprocessorLists, post \in PostprocessorLists}

\* hasattr(writer, 'close') is never true.
HasCloseNever(writer_type) == FALSE

\* hasattr(writer, 'close')
HasClose(writer_type) == writer_type \in ClosableWriters

\* The names of a list taken last to first.
NextNameReversed(names, done) == names[Len(names) - done]

\* for name in names: the name of the next turn after done turns
NextName(names, done) == names[done + 1]

\* A PipelineError without the message of its cause.
PipelineErrorBare(e) == Error("PipelineError", <<"Pipeline processing failed">>)

\* The exception classes the package defines for its components.
ScrubyErrors ==
    {"RegistrationError", "ReaderError", "WriterError", "PreprocessorError",
     "PostprocessorError", "RedactorError", "PipelineError"}

\* except clause that lets the package's own exceptions through.
PipelineErrorUnlessNamed(e) ==
    IF e.type \in ScrubyErrors THEN e
    ELSE Error("PipelineError", <<"Pipeline processing failed: ">> \o e.message)

\* except Exception as e: raise PipelineError(f"Pipeline processing failed: {e}")
PipelineError(e) == Error("PipelineError", <<"Pipeline processing failed: ">> \o e.message)

\* One call made by process: what was called, on which document of the run,
\* at which place of which list, with what argument and what outcome.
Event(op, index, pos, name, arg, outcome, calls) ==
    [op |-> op, index |-> index, pos |-> pos, name |-> name, arg |-> arg,
     ret |-> outcome.document, error |-> outcome.error, calls |-> calls]

NoDocument == [error |-> <<>>, document |-> <<>>]

InitPipeline ==
    /\ p_pc = "create_reader"
    /\ p_call \in Calls
    /\ p_config \in PipelineConfigs
    /\ p_source \in Sources(p_call.reader_type)
    /\ p_read = 0
    /\ p_doc = <<>>
    /\ p_stage = 0
    /\ p_processed = <<>>
    /\ p_writer = [pending |-> <<>>, dest |-> <<>>]
    /\ p_log = <<>>
    /\ p_error = <<>>
    /\ IdleResolve
    /\ IdleHash
    /\ IdleRedact
    /\ IdleRegistry
    /\ IdleThreads
    /\ IdleAnalyze

\* A call of process has been made and its outcome is known: the call is
\* logged; if it raised, the except clause of process raises PipelineError,
\* otherwise process goes on at next_pc with the document doc in flight.
Step(event, next_pc, doc, stage) ==
    /\ p_log' = Append(p_log, event)
    /\ IF event.error # <<>>
       THEN /\ p_pc' = "raised"
            /\ p_error' = <<PipelineError(event.error[1])>>
            /\ UNCHANGED <<p_doc, p_stage>>
       ELSE /\ p_pc' = next_pc
            /\ p_doc' = doc
            /\ p_stage' = stage
            /\ UNCHANGED p_error
    /\ UNCHANGED <<p_call, p_config, p_source>>
    /\ UNCHANGED <<resolveVars, hashVars, redactVars, registryVars, threadVars, analyzeVars>>

\* The step after the preprocessors, after done of them have run.
AfterRead(done) ==
    IF done < Len(p_call.preprocessors) THEN "preprocess" ELSE "redact"

\* The step after redaction and the postprocessors, after done of them have run.
AfterRedact(done) ==
    IF done < Len(p_call.postprocessors) THEN "postprocess" ELSE "write"

\* reader = self._create_reader(input_path, reader_type)
CreateReader ==
    /\ p_pc = "create_reader"
    /\ \E found \in BOOLEAN :
          Step(Event("create_reader", 0, 0, p_call.reader_type, <<>>,
                     IF found \/ p_call.reader_type # "text_file" THEN NoDocument
                     ELSE Raised(Error("ReaderError", <<"Path not found: ", "in">>)),
                     <<>>),
               "create_writer", <<>>, 0)
    /\ UNCHANGED <<p_read, p_processed, p_writer>>

\* writer = self._create_writer(output_path, writer_type)
CreateWriter ==
    /\ p_pc = "create_writer"
    /\ Step(Event("create_writer", 0, 0, p_call.writer_type, <<>>,
                  IF p_call.writer_type = "text_file" /\ p_call.output_path = NoValue
                  THEN Raised(Error("PipelineError",
                                    <<"output_path is required for text_file writer">>))
                  ELSE NoDocument,
                  <<>>),
            "read", <<>>, 0)
    /\ UNCHANGED <<p_read, p_processed, p_writer>>

\* What the generator raises when it cannot give the next document. The
\* text reader wraps every failure in ReaderError. The CSV reader looks for
\* its file when the generator is first asked for a document; later
\* failures come from decoding the open file.
ReadFailure(reader_type, read) ==
    IF reader_type = "text_file" THEN Error("ReaderError", <<"Failed to read file">>)
    ELSE IF read = 0 THEN Error("FileNotFoundError", <<"CSV file not found: ", "in">>)
    ELSE Error("UnicodeDecodeError", <<"'utf-8' codec can't decode byte">>)

\* for document in reader.read(): the loop asks the generator for the next
\* document; the generator yields it, raises, or is exhausted.
ReadNext ==
    /\ p_pc = "read"
    /\ \E readable \in BOOLEAN :
          IF ~readable
          THEN /\ Step(Event("read", p_read + 1, 0, p_call.reader_type, <<>>,
                             Raised(ReadFailure(p_call.reader_type, p_read)),
                             <<>>),
                       "raised", <<>>, 0)
               /\ UNCHANGED p_read
          ELSE IF p_read < Len(p_source)
          THEN /\ Step(Event("read", p_read + 1, 0, p_call.reader_type, <<>>,
                             Returned(p_source[p_read + 1]), <<>>),
                       AfterRead(0), <<p_source[p_read + 1]>>, 0)
               /\ p_read' = p_read + 1
          ELSE /\ Step(Event("read", p_read + 1, 0, p_call.reader_type, <<>>,
                             NoDocument, <<>>),
                       IF HasClose(p_call.writer_type) THEN "close" ELSE "returned",
                       <<>>, 0)
               /\ UNCHANGED p_read
    /\ UNCHANGED <<p_processed, p_writer>>

\* One turn of the loop of _preprocess_document.
PreprocessDocument ==
    /\ p_pc = "preprocess"
    /\ LET name == NextName(p_call.preprocessors, p_stage)
           outcome == Preprocess(p_config, name, p_doc[1])
       IN  Step(Event("preprocess", p_read, p_stage + 1, name, p_doc, outcome, <<>>),
                AfterRead(p_stage + 1), outcome.document, p_stage + 1)
    /\ UNCHANGED <<p_read, p_processed, p_writer>>

\* doc = self._redact_fields(doc)
RedactSelectedFields ==
    /\ p_pc = "redact"
    /\ SelectedForRedaction(p_doc[1])
    /\ LET selected == GetMeta(p_doc[1], "selected_for_redaction", EmptyDict)
       IN  \E engines \in [DOMAIN selected -> UNION {EngineRuns(selected[f]) :
                                                       f \in DOMAIN selected}] :
              /\ \A f \in DOMAIN selected : engines[f] \in EngineRuns(selected[f])
              /\ LET outcome == RedactFields(p_config, p_doc[1], engines)
                 IN  Step(Event("redact_fields", p_read, 0, "", p_doc, outcome,
                                FieldRedactions(p_config, selected, KeysOf(selected),
                                                1, engines)),
                          AfterRedact(0), outcome.document, 0)
    /\ UNCHANGED <<p_read, p_processed, p_writer>>

\* doc = self.redactor.redact(doc)
RedactContent ==
    /\ p_pc = "redact"
    /\ ~SelectedForRedaction(p_doc[1])
    /\ \E engine \in EngineRuns(p_doc[1].content.items) :
          /\ p_doc[1].content.null => engine.analysis.raises
          /\ LET outcome == RedactText(p_config, p_doc[1], engine)
             IN  Step(Event("redact", p_read, 0, "", p_doc, outcome,
                            <<[field |-> "", document |-> p_doc[1],
                               out |-> RedactDoc(p_config, p_doc[1], NoValue,
                                                 engine.analysis,
                                                 engine.anonymizer_raises),
                               engine |-> engine]>>),
                      AfterRedact(0), outcome.document, 0)
    /\ UNCHANGED <<p_read, p_processed, p_writer>>

\* One turn of the loop of _postprocess_document.
PostprocessDocument ==
    /\ p_pc = "postprocess"
    /\ LET name == NextName(p_call.postprocessors, p_stage)
           outcome == Postprocess(p_config, name, p_doc[1])
       IN  Step(Event("postprocess", p_read, p_stage + 1, name, p_doc, outcome, <<>>),
                AfterRedact(p_stage + 1), outcome.document, p_stage + 1)
    /\ UNCHANGED <<p_read, p_processed, p_writer>>

\* writer.write(document) of the writer the call names, on a destination that
\* can or cannot be written.
WriterWrite(writer_type, output_path, document, writable) ==
    IF writer_type \in ClosableWriters
    THEN IF DOMAIN GetMeta(document, "redacted_data", EmptyDict) = {} THEN NoDocument
         ELSE IF writer_type = "csv_file" /\ ~writable THEN Raised(Error("OSError", <<"No space left on device">>))
         ELSE NoDocument
    ELSE IF ~document.has_content
    THEN Raised(Error("WriterError", <<"Document must contain 'content' key">>))
    ELSE IF writer_type = "stdout"
    THEN IF ~writable
         THEN Raised(Error("WriterError", <<"Failed to write to stdout: ", "Broken pipe">>))
         ELSE NoDocument
    ELSE IF output_path = "out/" /\ GetMeta(document, "filename", NoValue) = NoValue
    THEN Raised(Error("WriterError",
             <<"Document metadata must contain 'filename' when writing to directory">>))
    ELSE IF ~writable
    THEN Raised(Error("WriterError", <<"Failed to write document: ", "Permission denied">>))
    ELSE IF document.content.null
    THEN Raised(Error("WriterError",
             <<"Failed to write document: ", "write() argument must be str, not None">>))
    ELSE NoDocument

\* One record of output: the document it was written from, and its number
\* in the run.
OutputRecord(document, index) == [index |-> index, document |-> document]

\* What writer.write(document) leaves in the writer w and in its destination.
\* The row writers return without a trace on a document that has no
\* redacted_data; XLSXWriter puts the row in the workbook it holds in memory,
\* CSVWriter hands it to a buffered file, which passes its buffer on to the
\* file when it is full (flushed); StdoutWriter prints; TextFileWriter opens
\* its file, or the file of the document's name in its directory, with "w".
WriterHolds(w, writer_type, output_path, document, index, writable, flushed) ==
    LET record == OutputRecord(document, index)
        filename(r) == GetMeta(r.document, "filename", NoValue)
    IN  IF writer_type \in ClosableWriters
        THEN IF DOMAIN GetMeta(document, "redacted_data", EmptyDict) = {} THEN w
             ELSE IF writer_type = "csv_file" /\ ~writable THEN w
             ELSE IF writer_type = "csv_file" /\ flushed
             THEN [pending |-> <<>>, dest |-> w.dest \o w.pending \o <<record>>]
             ELSE [w EXCEPT !.pending = Append(@, record)]
        ELSE IF ~document.has_content \/ ~writable THEN w
        ELSE IF writer_type = "stdout" THEN [w EXCEPT !.dest = Append(@, record)]
        ELSE IF output_path = "out/"
        THEN IF filename(record) = NoValue THEN w
             ELSE IF document.content.null
             THEN [w EXCEPT !.dest = SelectSeq(@, LAMBDA r : filename(r) # filename(record))]
             ELSE [w EXCEPT !.dest = Append(SelectSeq(@, LAMBDA r :
                                                filename(r) # filename(record)), record)]
        ELSE IF document.content.null THEN [w EXCEPT !.dest = <<>>]
        ELSE [w EXCEPT !.dest = <<record>>]

\* What writer.close() leaves: the buffered rows reach the file, the workbook
\* is saved; a close that fails leaves the destination as it was.
WriterClosed(w, saved) ==
    IF saved THEN [pending |-> <<>>, dest |-> w.dest \o w.pending] ELSE w

\* writer.write(doc); processed_documents.append(doc)
Write ==
    /\ p_pc = "write"
    /\ \E writable \in BOOLEAN, flushed \in BOOLEAN :
          LET outcome == WriterWrite(p_call.writer_type, p_call.output_path,
                                     p_doc[1], writable)
          IN  /\ Step(Event("write", p_read, 0, p_call.writer_type, p_doc, outcome, <<>>),
                      "read", <<>>, 0)
              /\ p_processed' = IF outcome.error = <<>>
                                THEN Append(p_processed, p_doc[1]) ELSE p_processed
              /\ p_writer' = WriterHolds(p_writer, p_call.writer_type, p_call.output_path,
                                         p_doc[1], p_read, writable, flushed)
    /\ UNCHANGED p_read

\* if hasattr(writer, 'close'): writer.close(); return processed_documents
Close ==
    /\ p_pc = "close"
    /\ \E flushed \in BOOLEAN :
          /\ Step(Event("close", 0, 0, p_call.writer_type, <<>>,
                     IF flushed THEN NoDocument
                     ELSE Raised(Error("OSError", <<"No space left on device">>)),
                     <<>>),
               "returned", <<>>, 0)
          /\ p_writer' = WriterClosed(p_writer, flushed)
    /\ UNCHANGED <<p_read, p_processed>>

Next ==
    \/ CreateReader
    \/ CreateWriter
    \/ ReadNext
    \/ PreprocessDocument
    \/ RedactSelectedFields
    \/ RedactContent
    \/ PostprocessDocument
    \/ Write
    \/ Close

Spec == InitPipeline /\ [][Next]_vars

(***************************************************************************)
(* Claims about Pipeline.process.                                          *)
(***************************************************************************)
\* The call that follows the n-th preprocessor of a document.
PreprocessOrRedact(n, pos) ==
    IF pos <= Len(p_call.preprocessors)
    THEN n.op = "preprocess" /\ n.pos = pos /\ n.name = p_call.preprocessors[pos]
    ELSE n.op \in {"redact", "redact_fields"}

\* The call that follows redaction and the n-th postprocessor of a document.
PostprocessOrWrite(n, pos) ==
    IF pos <= Len(p_call.postprocessors)
    THEN n.op = "postprocess" /\ n.pos = pos /\ n.name = p_call.postprocessors[pos]
    ELSE n.op = "write"

\* Call n is the one the per-document state machine puts after call e.
Follows(e, n) ==
    CASE e.op = "create_reader" -> n.op = "create_writer"
      [] e.op = "create_writer" -> n.op = "read" /\ n.index = 1
      [] e.op = "read" /\ e.ret # <<>> ->
            n.index = e.index /\ n.arg = e.ret /\ PreprocessOrRedact(n, 1)
      [] e.op = "read" /\ e.ret = <<>> -> n.op = "close"
      [] e.op = "preprocess" ->
            n.index = e.index /\ n.arg = e.ret /\ PreprocessOrRedact(n, e.pos + 1)
      [] e.op \in {"redact", "redact_fields"} ->
            n.index = e.index /\ n.arg = e.ret /\ PostprocessOrWrite(n, 1)
      [] e.op = "postprocess" ->
            n.index = e.index /\ n.arg = e.ret /\ PostprocessOrWrite(n, e.pos + 1)
      [] e.op = "write" -> n.op = "read" /\ n.index = e.index + 1
      [] OTHER -> FALSE

\* C5: the calls of a run follow the per-document state machine: the
\* preprocessors in the given order, redaction, the postprocessors in the
\* given order, write, each on the document the previous call returned; the
\* reader yields its documents in order, and document i+1 is requested only
\* after document i was passed to writer.write.
C5_StagesInOrder ==
    /\ \A k \in 1..(Len(p_log) - 1) : Follows(p_log[k], p_log[k + 1])
    /\ \A k \in DOMAIN p_log :
          p_log[k].op = "read" =>
             /\ p_log[k].ret # <<>> => p_log[k].ret = <<p_source[p_log[k].index]>>
             /\ p_log[k].index > 1 =>
                   \E j \in 1..(k - 1) :
                      /\ p_log[j].op = "write"
                      /\ p_log[j].index = p_log[k].index - 1
                      /\ p_log[j].arg # <<>>

\* C5 witness: a run over two documents with two preprocessors and two
\* postprocessors has returned.
C5_Witness ==
    /\ p_pc = "returned"
    /\ Len(p_processed) = 2
    /\ Len(p_call.preprocessors) = 2
    /\ Len(p_call.postprocessors) = 2
    /\ p_call.preprocessors[1] # p_call.preprocessors[2]

\* C6: a call that fails is the last call of the run: the run ends at once by
\* raising one PipelineError with the message of that failure, and a run
\* raises only then.
C6_FirstFailureEndsRun ==
    /\ \A k \in 1..(Len(p_log) - 1) : p_log[k].error = <<>>
    /\ (p_pc = "raised") <=> (p_log # <<>> /\ p_log[Len(p_log)].error # <<>>)
    /\ p_pc = "raised" =>
          /\ Len(p_error) = 1
          /\ p_error[1].type = "PipelineError"
          /\ p_error[1].message =
                <<"Pipeline processing failed: ">> \o p_log[Len(p_log)].error[1].message
          /\ Len(p_processed) =
                IF p_log[Len(p_log)].op \in {"create_reader", "create_writer", "read", "close"}
                THEN p_read ELSE p_read - 1
    /\ p_pc # "raised" => p_error = <<>>

\* C6 witness: redaction of the first of two documents failed and the run
\* was over.
C6_Witness ==
    /\ p_pc = "raised"
    /\ p_log[Len(p_log)].op \in {"redact", "redact_fields"}
    /\ p_read = 1
    /\ Len(p_source) = 2
    /\ ~ENABLED Next

RECURSIVE EntitySum(_)
EntitySum(calls) ==
    IF calls = <<>> THEN 0
    ELSE calls[1].out.document.metadata["redacted_entities"] + EntitySum(Tail(calls))

\* The selection a document carries into the redaction stage.
SelectionOf(document) ==
    IF "selected_for_redaction" \in DOMAIN MetadataOf(document)
    THEN MetadataOf(document)["selected_for_redaction"]
    ELSE EmptyDict

\* C7: a document that carries a non-empty selection is redacted field by
\* field and never as a whole text: every selected value is redacted as the
\* content of a document of its own with empty metadata, redacted_fields
\* maps exactly the selected names to the redacted values, redacted_entities
\* is the sum of the per-field counts, and the content is unchanged.
C7_SelectedFieldsRedacted ==
    \A k \in DOMAIN p_log :
        LET e == p_log[k]
            selected == SelectionOf(e.arg[1])
        IN  (e.op \in {"redact", "redact_fields"} /\ DOMAIN selected # {}) =>
              /\ e.op = "redact_fields"
              /\ \A i \in DOMAIN e.calls :
                    /\ e.calls[i].field \in DOMAIN selected
                    /\ e.calls[i].document =
                          Document(TRUE, [null |-> FALSE,
                                          items |-> selected[e.calls[i].field]],
                                   TRUE, EmptyDict)
                    /\ \A j \in DOMAIN e.calls : e.calls[j].field = e.calls[i].field => j = i
              /\ e.error = <<>> =>
                    LET after == e.ret[1].metadata IN
                    /\ {e.calls[i].field : i \in DOMAIN e.calls} = DOMAIN selected
                    /\ DOMAIN after["redacted_fields"] = DOMAIN selected
                    /\ \A i \in DOMAIN e.calls :
                          after["redacted_fields"][e.calls[i].field] =
                             e.calls[i].out.document.content.items
                    /\ after["redacted_entities"] = EntitySum(e.calls)
                    /\ e.ret[1].has_content = e.arg[1].has_content
                    /\ e.ret[1].content = e.arg[1].content

\* C7 witness: a row with two selected fields was redacted, one field with
\* an entity and one without.
C7_Witness ==
    \E k \in DOMAIN p_log :
        /\ p_log[k].op = "redact_fields"
        /\ p_log[k].error = <<>>
        /\ Len(p_log[k].calls) = 2
        /\ p_log[k].ret[1].metadata["redacted_entities"] = 1

\* C8: a row that went through field selection, per-field redaction and the
\* merge stage with preserve_unselected enabled carries redacted_data with
\* every key of original_data: the redacted_fields value for every key of
\* selected_fields, the original_data value for every other key.
C8_MergedRowKeepsAllKeys ==
    \A k \in DOMAIN p_log :
        LET e == p_log[k]
            before == MetadataOf(e.arg[1])
        IN  (/\ e.op = "postprocess"
             /\ e.name = "dict_merger"
             /\ e.error = <<>>
             /\ {"original_data", "selected_fields", "redacted_fields"} \subseteq DOMAIN before
             /\ (IF "preserve_unselected" \in DOMAIN p_config
                 THEN p_config["preserve_unselected"] ELSE TRUE)) =>
              LET after == e.ret[1].metadata IN
              /\ "redacted_data" \in DOMAIN after
              /\ DOMAIN before["original_data"] \subseteq DOMAIN after["redacted_data"]
              /\ \A f \in DOMAIN before["original_data"] :
                    after["redacted_data"][f] =
                       IF f \in Range(before["selected_fields"])
                       THEN before["redacted_fields"][f]
                       ELSE before["original_data"][f]

\* C8 witness: a merged row was written in which the selected field was
\* replaced and an unselected field was kept.
C8_Witness ==
    \E i \in DOMAIN p_processed :
        LET md == MetadataOf(p_processed[i]) IN
        /\ {"original_data", "selected_fields", "redacted_data"} \subseteq DOMAIN md
        /\ md["selected_fields"] = <<"Email">>
        /\ DOMAIN md["redacted_data"] = {"ID", "Email"}
        /\ md["redacted_data"]["ID"] = md["original_data"]["ID"]
        /\ md["redacted_data"]["Email"] # md["original_data"]["Email"]

\* C9: on both paths the document that enters the redaction stage has
\* neither redacted_entities nor redaction_strategy in its metadata, and the
\* document that leaves it has both.
C9_CountAndStrategyAfterRedaction ==
    \A k \in DOMAIN p_log :
        p_log[k].op \in {"redact", "redact_fields"} =>
           /\ {"redacted_entities", "redaction_strategy"}
                 \cap DOMAIN MetadataOf(p_log[k].arg[1]) = {}
           /\ p_log[k].error = <<>> =>
                 {"redacted_entities", "redaction_strategy"}
                    \subseteq DOMAIN MetadataOf(p_log[k].ret[1])

\* C9 divergence reached: a row left the per-field redaction stage with a
\* count and without a strategy name.
C9_Witness ==
    \E k \in DOMAIN p_log :
        /\ p_log[k].op = "redact_fields"
        /\ p_log[k].error = <<>>
        /\ "redacted_entities" \in DOMAIN MetadataOf(p_log[k].ret[1])
        /\ "redaction_strategy" \notin DOMAIN MetadataOf(p_log[k].ret[1])

\* The whole-text path alone has both keys after redaction.
C9_WholeTextPathHasBoth ==
    \A k \in DOMAIN p_log :
        (p_log[k].op = "redact" /\ p_log[k].error = <<>>) =>
           {"redacted_entities", "redaction_strategy"}
              \subseteq DOMAIN MetadataOf(p_log[k].ret[1])

\* The number of calls of one kind made so far.
Count(op) == Cardinality({k \in DOMAIN p_log : p_log[k].op = op})

\* C10: one writer is created in a run, before the first document is asked
\* of the reader; close is called only on a writer that has it, at most once
\* and after every write; a run that has processed all documents has called
\* it once if the writer has it, as its last call before returning.
C10_OneWriterClosedOnce ==
    /\ Count("create_writer") <= 1
    /\ Count("close") <= 1
    /\ \A k \in DOMAIN p_log :
          /\ p_log[k].op \in {"read", "write"} =>
                \E j \in 1..(k - 1) :
                   p_log[j].op = "create_writer" /\ p_log[j].error = <<>>
          /\ p_log[k].op = "close" =>
                /\ k = Len(p_log)
                /\ p_call.writer_type \in ClosableWriters
                /\ Len(p_processed) = Len(p_source)
                /\ Count("write") = Len(p_source)
    /\ p_pc = "returned" =>
          /\ Count("create_writer") = 1
          /\ Len(p_processed) = Len(p_source)
          /\ Count("close") = IF p_call.writer_type \in ClosableWriters THEN 1 ELSE 0

\* C10 witness: a run with a writer that has close wrote two documents,
\* closed the writer and returned.
C10_Witness ==
    /\ p_pc = "returned"
    /\ p_call.writer_type \in ClosableWriters
    /\ Count("write") = 2
    /\ p_log[Len(p_log)].op = "close"


(***************************************************************************)
(* Output that had been written when a run fails.                          *)
(***************************************************************************)

\* The documents writer.write took without raising before process raised.
WrittenBefore == {k \in DOMAIN p_log : p_log[k].op = "write" /\ p_log[k].error = <<>>}

\* process raised while it handled a document of the run.
FailedOnDocument ==
    /\ p_pc = "raised"
    /\ p_log[Len(p_log)].op \notin {"create_reader", "create_writer", "close"}

\* C11: when a run fails while handling document i, the output of every
\* earlier document that writer.write had taken is in the writer's
\* destination at the moment process raises, whichever the writer.
C11_EarlierOutputInDestination ==
    FailedOnDocument =>
        \A k \in WrittenBefore :
            \E r \in DOMAIN p_writer.dest : p_writer.dest[r].index = p_log[k].index

\* A run with the xlsx writer that wrote the first row and failed on the
\* second: the row is in the workbook the writer holds, the destination is
\* empty.
C11_Witness ==
    /\ FailedOnDocument
    /\ p_call.writer_type = "xlsx_file"
    /\ p_log[Len(p_log)].index = 2
    /\ p_log[Len(p_log)].op \in {"redact_fields", "redact"}
    /\ \E k \in WrittenBefore :
          /\ p_log[k].index = 1
          /\ DOMAIN GetMeta(p_log[k].arg[1], "redacted_data", EmptyDict) # {}
    /\ Len(p_writer.pending) = 1
    /\ p_writer.pending[1].index = 1
    /\ p_writer.dest = <<>>

(***************************************************************************)
(* What the caller of process receives when a stage raises.                *)
(***************************************************************************)

\* The exception a call made by process raised, if the last call raised.
StageError == p_log[Len(p_log)].error

\* C12 as stated: an error of a stage that is one of the named kinds reaches
\* the caller of process as it was raised.
C12_NamedKindsUnmodified ==
    (p_pc = "raised" /\ StageError[1].type \in ScrubyErrors) =>
        p_error = StageError

\* C12, corrected: whatever a stage raises, named kinds included (and the
\* PipelineError of _create_writer among them), the caller of process
\* receives a new PipelineError whose message is "Pipeline processing
\* failed: " followed by the message of the stage's error.
C12_EveryKindWrapped ==
    \A k \in DOMAIN p_log :
        p_log[k].error # <<>> =>
            /\ p_pc = "raised"
            /\ p_error = <<Error("PipelineError", <<"Pipeline processing failed: ">>
                                                     \o p_log[k].error[1].message)>>
            /\ p_error # p_log[k].error

\* A writer raised WriterError and the caller received the PipelineError
\* around it; a run whose _create_writer raised PipelineError is the other
\* named kind the pipeline raises itself.
C12_Witness ==
    /\ p_pc = "raised"
    /\ StageError # <<>>
    /\ StageError[1].type = "WriterError"
    /\ p_error[1].type = "PipelineError"
    /\ p_error[1].message[1] = "Pipeline processing failed: "
    /\ Len(p_error[1].message) = 1 + Len(StageError[1].message)

(***************************************************************************)
(* Texts in which nothing is detected.                                     *)
(***************************************************************************)

\* In this call of redact the analyzer returned, and returned no entity.
NoEntity(call) ==
    /\ ~call.engine.analysis.raises
    /\ call.engine.analysis.results = <<>>

\* What dict_merger returned for the document of number index, if it ran.
MergedFor(index) ==
    {p_log[k].ret[1] : k \in {n \in DOMAIN p_log :
                                /\ p_log[n].op = "postprocess"
                                /\ p_log[n].name = "dict_merger"
                                /\ p_log[n].index = index
                                /\ p_log[n].error = <<>>}}

\* C17: a call of redact in which no entity is detected returns the content it
\* was given, empty content included, with redacted_entities 0, and fails
\* only if the anonymizer fails; a selected field of a row in which nothing is
\* detected has its value as it was, in redacted_fields and, after
\* dict_merger, in redacted_data.
C17_NoEntityLeavesTextUnchanged ==
    \A k \in DOMAIN p_log :
        \A i \in DOMAIN p_log[k].calls :
            LET e == p_log[k]
                call == e.calls[i]
            IN  NoEntity(call) =>
                  /\ ~call.engine.anonymizer_raises => call.out.status = "ok"
                  /\ call.out.status = "ok" =>
                        /\ call.out.document.content = call.document.content
                        /\ GetMeta(call.out.document, "redacted_entities", NoValue) = 0
                  /\ (e.op = "redact" /\ e.error = <<>>) =>
                        /\ e.ret[1].content = e.arg[1].content
                        /\ GetMeta(e.ret[1], "redacted_entities", NoValue) = 0
                  /\ (e.op = "redact_fields" /\ e.error = <<>>) =>
                        /\ call.field \in DOMAIN GetMeta(e.ret[1], "redacted_fields", EmptyDict)
                        /\ GetMeta(e.ret[1], "redacted_fields", EmptyDict)[call.field] =
                              GetMeta(e.arg[1], "original_data", EmptyDict)[call.field]
                        /\ \A merged \in MergedFor(e.index) :
                              /\ call.field \in DOMAIN GetMeta(merged, "redacted_data", EmptyDict)
                              /\ GetMeta(merged, "redacted_data", EmptyDict)[call.field] =
                                    GetMeta(e.arg[1], "original_data", EmptyDict)[call.field]

\* A run over rows that returned: nothing was detected in the Email of the
\* first row, dict_merger ran on it, and the row was written.
C17_Witness ==
    /\ p_pc = "returned"
    /\ \E k \in DOMAIN p_log :
          /\ p_log[k].op = "redact_fields"
          /\ p_log[k].index = 1
          /\ \E i \in DOMAIN p_log[k].calls :
                /\ p_log[k].calls[i].field = "Email"
                /\ NoEntity(p_log[k].calls[i])
          /\ \E merged \in MergedFor(1) :
                GetMeta(merged, "redacted_data", EmptyDict)["Email"] =
                    GetMeta(p_log[k].arg[1], "original_data", EmptyDict)["Email"]
    /\ Len(p_processed) >= 1

(***************************************************************************)
(* What process leaves of the document it was handed.                      *)
(***************************************************************************)
\* C22: after every call of a preprocessor or postprocessor the document
\* that was passed in, content and metadata included, is as it was before
\* the call.
C22_ProcessLeavesArgumentUnchanged ==
    \A k \in DOMAIN p_log :
        LET e == p_log[k]
        IN  /\ e.op = "preprocess" =>
                  PassedAfterPreprocess(p_config, e.name, e.arg[1]) = e.arg[1]
            /\ e.op = "postprocess" =>
                  PassedAfterPostprocess(p_config, e.name, e.arg[1]) = e.arg[1]

\* field_selector was called on a row: the dict it was given now carries
\* the selection in its metadata.
C22_Witness ==
    \E k \in DOMAIN p_log :
        LET e == p_log[k]
        IN  /\ e.op = "preprocess"
            /\ e.name = "field_selector"
            /\ e.error = <<>>
            /\ "selected_fields" \notin DOMAIN MetadataOf(e.arg[1])
            /\ "selected_fields" \in
                  DOMAIN MetadataOf(PassedAfterPreprocess(p_config, e.name, e.arg[1]))

(***************************************************************************)
(* A source that does not exist.                                           *)
(***************************************************************************)
\* The call failed because the source path does not exist.
MissingSource(e) ==
    /\ e.error # <<>>
    /\ e.error[1].message[1] \in {"Path not found: ", "CSV file not found: "}

\* C23: a source that does not exist makes the construction of the reader
\* fail, so that the run fails before the writer is created.
C23_MissingSourceFailsAtConstruction ==
    \A k \in DOMAIN p_log :
        MissingSource(p_log[k]) =>
            /\ p_log[k].op = "create_reader"
            /\ \A j \in 1..(k - 1) : p_log[j].op # "create_writer"

\* A run with the CSV reader on a missing file: the reader and the writer
\* were created, and the first read failed because the file was not found.
C23_Witness ==
    /\ p_pc = "raised"
    /\ p_call.reader_type = "csv_file"
    /\ Len(p_log) = 3
    /\ p_log[1].op = "create_reader" /\ p_log[1].error = <<>>
    /\ p_log[2].op = "create_writer" /\ p_log[2].error = <<>>
    /\ p_log[3].op = "read" /\ MissingSource(p_log[3])

(***************************************************************************)
(* Which documents get whole-text redaction.                               *)
(***************************************************************************)
\* field_selector has marked the document with selected_fields.
MarkedBySelector(document) == "selected_fields" \in DOMAIN MetadataOf(document)

\* A row of structured data whose content is None.
StructuredWithoutContent(document) ==
    /\ DOMAIN GetMeta(document, "original_data", EmptyDict) # {}
    /\ document.has_content
    /\ document.content.null

\* C28: Redactor.redact is never called on a document that field_selector
\* has marked with selected_fields, whether or not fields were selected,
\* nor on a structured document whose content is None.
C28_MarkedDocumentsRedactedPerField ==
    \A k \in DOMAIN p_log :
        p_log[k].op = "redact" =>
            /\ ~MarkedBySelector(p_log[k].arg[1])
            /\ ~StructuredWithoutContent(p_log[k].arg[1])

\* field_selector selected no field of a row, because the configured field
\* is not a column of it, and the row was handed to Redactor.redact with
\* content None.
C28_Witness ==
    \E k \in DOMAIN p_log :
        /\ p_log[k].op = "redact"
        /\ MarkedBySelector(p_log[k].arg[1])
        /\ GetMeta(p_log[k].arg[1], "selected_fields", <<"?">>) = <<>>
        /\ StructuredWithoutContent(p_log[k].arg[1])
        /\ p_log[k].error # <<>>

(***************************************************************************)
(* The records of a run that returned.                                     *)
(***************************************************************************)
\* C29: when process has returned, every document of the returned list has
\* exactly one record in the destination, and the destination holds as many
\* records as documents were read.
C29_OneRecordPerDocument ==
    p_pc = "returned" =>
        /\ Len(p_writer.dest) = p_read
        /\ \A i \in DOMAIN p_processed :
              Cardinality({k \in DOMAIN p_writer.dest :
                              p_writer.dest[k] = OutputRecord(p_processed[i], i)}) = 1

\* Two text documents were written to the one output file and process
\* returned both: the file holds the second only.
C29_Witness ==
    /\ p_pc = "returned"
    /\ p_call.writer_type = "text_file"
    /\ p_call.output_path = "out.txt"
    /\ Len(p_processed) = 2
    /\ p_writer.dest = <<OutputRecord(p_processed[2], 2)>>

\* Rows without redacted_data were handed to the CSV writer and process
\* returned them: the file holds no record.
C29_SkippedRows ==
    /\ p_pc = "returned"
    /\ p_call.writer_type = "csv_file"
    /\ Len(p_processed) > 0
    /\ p_writer.dest = <<>>

(***************************************************************************)
(* ComponentRegistry                                                       *)
(*                                                                         *)
(* A class is its name; a registry is a dict from names to classes. The    *)
(* text of a message is the sequence of the pieces it is put together      *)
(* from, without the empty ones. An instance is the class it was made of,  *)
(* the keyword arguments its constructor received, and its identity.       *)
(***************************************************************************)
ComponentType == "reader"

Names == {"", "a", "b"}

\* The order of the names as Python compares str.
NameOrder == <<"", "a", "b">>

ComponentClasses == {"DummyComponent", "ComponentWithArgs"}

\* The keyword parameters a constructor takes, and those without a default.
Parameters(component_class) ==
    IF component_class = "ComponentWithArgs" THEN {"value"} ELSE {}

RequiredParameters(component_class) ==
    IF component_class = "ComponentWithArgs" THEN {"value"} ELSE {}

KeywordNames == <<"value", "name">>

KeywordArguments == UNION {[given -> {1}] : given \in SUBSET Range(KeywordNames)}

\* The text an f-string or a join puts together from its pieces.
Concat(pieces) == SelectSeq(pieces, LAMBDA piece : piece # "")

\* separator.join(names), piece by piece
RECURSIVE Join(_, _)
Join(separator, names) ==
    IF Len(names) <= 1 THEN names
    ELSE <<names[1], separator>> \o Join(separator, Tail(names))

\* list_available: sorted(self._registry.keys())
list_available(registry) == SelectSeq(NameOrder, LAMBDA name : name \in DOMAIN registry)

\* is_registered: name in self._registry
is_registered(registry, name) == name \in DOMAIN registry

\* The outcome of a call on the registry: the exception it raised or what
\* it returned, and the registry it left.
Outcome(error, class, instance, registry) ==
    [error |-> error, class |-> class, instance |-> instance, registry |-> registry]

\* A register that does not look for an earlier registration.
registerOver(registry, name, component_class, override) ==
    Outcome(<<>>, NoValue, <<>>, DictWith(registry, name, component_class))

\* register(name, component_class, override)
register(registry, name, component_class, override) ==
    IF name \in DOMAIN registry /\ ~override
    THEN Outcome(<<Error("RegistrationError",
                         Concat(<<ComponentType, " '", name, "' is already registered">>))>>,
                 NoValue, <<>>, registry)
    ELSE Outcome(<<>>, NoValue, <<>>, DictWith(registry, name, component_class))

\* available = ", ".join(self.list_available()) or "none"
Available(registry) ==
    LET joined == Concat(Join(", ", list_available(registry)))
    IN  IF joined = <<>> THEN <<"none">> ELSE joined

\* get(name)
get(registry, name) ==
    IF name \notin DOMAIN registry
    THEN Outcome(<<Error("RegistrationError",
                         Concat(<<ComponentType, " '", name, "' not found. ", "Available: ">>)
                         \o Available(registry))>>,
                 NoValue, <<>>, registry)
    ELSE Outcome(<<>>, registry[name], <<>>, registry)

\* component_class(**kwargs): the instance, or the TypeError of a call that
\* does not fit the signature (an unexpected keyword is reported first; a
\* class without __init__ takes no arguments).
Construct(component_class, kwargs, identity) ==
    LET unexpected == SelectSeq(KeywordNames, LAMBDA k :
                          k \in DOMAIN kwargs /\ k \notin Parameters(component_class))
        missing == SelectSeq(KeywordNames, LAMBDA k :
                          k \in RequiredParameters(component_class) /\ k \notin DOMAIN kwargs)
    IN  IF unexpected # <<>> /\ Parameters(component_class) = {}
        THEN [error |-> <<Error("TypeError",
                             <<component_class, "() takes no arguments">>)>>,
              instance |-> <<>>]
        ELSE IF unexpected # <<>>
        THEN [error |-> <<Error("TypeError",
                             <<component_class,
                               ".__init__() got an unexpected keyword argument '",
                               unexpected[1], "'">>)>>,
              instance |-> <<>>]
        ELSE IF missing # <<>>
        THEN [error |-> <<Error("TypeError",
                             <<component_class,
                               ".__init__() missing 1 required positional argument: '",
                               missing[1], "'">>)>>,
              instance |-> <<>>]
        ELSE [error |-> <<>>,
              instance |-> <<[class |-> component_class, kwargs |-> kwargs,
                              identity |-> identity]>>]

\* A wrapping that drops the message of the original error.
InstantiationErrorBare(name, e) ==
    Error("TypeError", Concat(<<"Failed to instantiate ", ComponentType, " '", name, "'">>))

\* raise TypeError(f"Failed to instantiate {type} '{name}': {e}") from e
InstantiationError(name, e) ==
    Error("TypeError",
          Concat(<<"Failed to instantiate ", ComponentType, " '", name, "': ">>) \o e.message)

\* create(component_name, **kwargs)
create(registry, component_name, kwargs, identity) ==
    LET found == get(registry, component_name)
        made == Construct(found.class, kwargs, identity)
    IN  IF found.error # <<>> THEN found
        ELSE IF made.error # <<>>
        THEN Outcome(<<InstantiationError(component_name, made.error[1])>>,
                     NoValue, <<>>, registry)
        ELSE Outcome(<<>>, NoValue, made.instance, registry)

\* An unregister that leaves the registration in place.
unregisterKeep(registry, name) ==
    IF name \notin DOMAIN registry
    THEN Outcome(<<Error("RegistrationError",
                         Concat(<<ComponentType, " '", name, "' not registered">>))>>,
                 NoValue, <<>>, registry)
    ELSE Outcome(<<>>, NoValue, <<>>, registry)

\* unregister(name)
unregister(registry, name) ==
    IF name \notin DOMAIN registry
    THEN Outcome(<<Error("RegistrationError",
                         Concat(<<ComponentType, " '", name, "' not registered">>))>>,
                 NoValue, <<>>, registry)
    ELSE Outcome(<<>>, NoValue, <<>>, [k \in DOMAIN registry \ {name} |-> registry[k]])

\* clear()
clear(registry) == Outcome(<<>>, NoValue, <<>>, EmptyDict)

\* One call on the registry, as the model keeps it: its arguments, the
\* registry and the number of instances before it, and its outcome.
Called(op, name, component_class, override, kwargs, outcome, names, flag) ==
    [op |-> op, name |-> name, class |-> component_class, override |-> override,
     kwargs |-> kwargs, before |-> reg_registry, made |-> reg_made,
     error |-> outcome.error, ret_class |-> outcome.class,
     ret_instance |-> outcome.instance, ret_names |-> names, ret_flag |-> flag]

\* ComponentRegistry(component_type)
InitRegistry ==
    /\ reg_registry = EmptyDict
    /\ reg_latest = EmptyDict
    /\ reg_made = 0
    /\ reg_last = Called("new", NoValue, NoValue, FALSE, EmptyDict,
                         Outcome(<<>>, NoValue, <<>>, EmptyDict), <<>>, FALSE)
    /\ IdleResolve
    /\ IdleHash
    /\ IdleRedact
    /\ IdlePipeline
    /\ IdleThreads
    /\ IdleAnalyze

Register ==
    \E name \in Names, component_class \in ComponentClasses, override \in BOOLEAN :
        LET outcome == register(reg_registry, name, component_class, override)
        IN  /\ reg_registry' = outcome.registry
            /\ reg_latest' = IF outcome.error = <<>>
                             THEN DictWith(reg_latest, name, component_class)
                             ELSE reg_latest
            /\ reg_last' = Called("register", name, component_class, override, EmptyDict,
                                  outcome, <<>>, FALSE)
            /\ UNCHANGED reg_made
            /\ UNCHANGED <<resolveVars, hashVars, redactVars, pipeVars, threadVars, analyzeVars>>

Get ==
    \E name \in Names :
        LET outcome == get(reg_registry, name)
        IN  /\ reg_registry' = outcome.registry
            /\ reg_last' = Called("get", name, NoValue, FALSE, EmptyDict, outcome, <<>>, FALSE)
            /\ UNCHANGED <<reg_latest, reg_made>>
            /\ UNCHANGED <<resolveVars, hashVars, redactVars, pipeVars, threadVars, analyzeVars>>

Create ==
    /\ reg_made < MaxInstances
    /\ \E name \in Names, kwargs \in KeywordArguments :
          LET outcome == create(reg_registry, name, kwargs, reg_made + 1)
          IN  /\ reg_registry' = outcome.registry
              /\ reg_made' = IF outcome.instance # <<>> THEN reg_made + 1 ELSE reg_made
              /\ reg_last' = Called("create", name, NoValue, FALSE, kwargs, outcome,
                                    <<>>, FALSE)
              /\ UNCHANGED reg_latest
              /\ UNCHANGED <<resolveVars, hashVars, redactVars, pipeVars, threadVars, analyzeVars>>

Unregister ==
    \E name \in Names :
        LET outcome == unregister(reg_registry, name)
        IN  /\ reg_registry' = outcome.registry
            /\ reg_latest' = IF outcome.error = <<>>
                             THEN [k \in DOMAIN reg_latest \ {name} |-> reg_latest[k]]
                             ELSE reg_latest
            /\ reg_last' = Called("unregister", name, NoValue, FALSE, EmptyDict, outcome,
                                  <<>>, FALSE)
            /\ UNCHANGED reg_made
            /\ UNCHANGED <<resolveVars, hashVars, redactVars, pipeVars, threadVars, analyzeVars>>

Clear ==
    /\ reg_registry' = clear(reg_registry).registry
    /\ reg_last' = Called("clear", NoValue, NoValue, FALSE, EmptyDict, clear(reg_registry),
                          <<>>, FALSE)
    /\ reg_latest' = EmptyDict
    /\ UNCHANGED reg_made
    /\ UNCHANGED <<resolveVars, hashVars, redactVars, pipeVars, threadVars, analyzeVars>>

IsRegistered ==
    \E name \in Names :
        /\ reg_last' = Called("is_registered", name, NoValue, FALSE, EmptyDict,
                              Outcome(<<>>, NoValue, <<>>, reg_registry),
                              <<>>, is_registered(reg_registry, name))
        /\ UNCHANGED <<reg_registry, reg_latest, reg_made>>
        /\ UNCHANGED <<resolveVars, hashVars, redactVars, pipeVars, threadVars, analyzeVars>>

ListAvailable ==
    /\ reg_last' = Called("list_available", NoValue, NoValue, FALSE, EmptyDict,
                          Outcome(<<>>, NoValue, <<>>, reg_registry),
                          list_available(reg_registry), FALSE)
    /\ UNCHANGED <<reg_registry, reg_latest, reg_made>>
    /\ UNCHANGED <<resolveVars, hashVars, redactVars, pipeVars, threadVars, analyzeVars>>

NextRegistry ==
    \/ Register
    \/ Get
    \/ Create
    \/ Unregister
    \/ Clear
    \/ IsRegistered
    \/ ListAvailable

SpecRegistry == InitRegistry /\ [][NextRegistry]_vars

(***************************************************************************)
(* Claims about ComponentRegistry.                                         *)
(***************************************************************************)

\* C18: register on a name that is registered fails with RegistrationError
\* when override is false and leaves the registry as it was, the earlier
\* class still under the name; with override it succeeds and get(name) then
\* returns the new class; on a name that is not registered it succeeds,
\* whatever override is.
C18_RegisterDuplicateAndOverride ==
    reg_last.op = "register" =>
        LET name == reg_last.name
            before == reg_last.before
        IN  /\ (name \in DOMAIN before /\ ~reg_last.override) =>
                  /\ Len(reg_last.error) = 1
                  /\ reg_last.error[1].type = "RegistrationError"
                  /\ reg_registry = before
                  /\ get(reg_registry, name).class = before[name]
            /\ (name \in DOMAIN before /\ reg_last.override) =>
                  /\ reg_last.error = <<>>
                  /\ get(reg_registry, name).error = <<>>
                  /\ get(reg_registry, name).class = reg_last.class
            /\ name \notin DOMAIN before =>
                  /\ reg_last.error = <<>>
                  /\ get(reg_registry, name).error = <<>>
                  /\ get(reg_registry, name).class = reg_last.class

\* A name registered with one class was registered again with another class
\* and override=True.
C18_Witness ==
    /\ reg_last.op = "register"
    /\ reg_last.name \in DOMAIN reg_last.before
    /\ reg_last.override
    /\ reg_last.before[reg_last.name] # reg_last.class
    /\ reg_registry[reg_last.name] = reg_last.class

\* The names of a registry in ascending order, one after the other with
\* ", " between them, as text.
NamesListed(registry) ==
    Concat(Join(", ", SelectSeq(NameOrder, LAMBDA name : name \in DOMAIN registry)))

\* C19: get of a name that is not registered fails with a RegistrationError
\* whose message names the requested name and lists all the names registered
\* at that moment in sorted order, 'none' when the registry is empty, and
\* leaves the registry unchanged; get of a registered name returns the class
\* most recently registered under it.
C19_GetListsRegisteredNames ==
    reg_last.op = "get" =>
        LET name == reg_last.name
            before == reg_last.before
        IN  /\ reg_registry = before
            /\ name \notin DOMAIN before =>
                  /\ Len(reg_last.error) = 1
                  /\ reg_last.error[1].type = "RegistrationError"
                  /\ reg_last.error[1].message =
                        Concat(<<ComponentType, " '", name, "' not found. ", "Available: ">>)
                        \o (IF DOMAIN before = {} THEN <<"none">> ELSE NamesListed(before))
            /\ name \in DOMAIN before =>
                  /\ reg_last.error = <<>>
                  /\ reg_last.ret_class = reg_latest[name]

\* The same, for registries in which the empty string is not a name.
C19_GetListsNonEmptyNames ==
    (reg_last.op = "get" /\ "" \notin DOMAIN reg_last.before) => C19_GetListsRegisteredNames

\* The registry holds one class, under the name "": get of another name
\* reports 'Available: none'.
C19_Witness ==
    /\ reg_last.op = "get"
    /\ DOMAIN reg_last.before = {""}
    /\ reg_last.name = "a"
    /\ Len(reg_last.error) = 1
    /\ reg_last.error[1].message[Len(reg_last.error[1].message)] = "none"

\* The keyword arguments fit the constructor of the class.
FitsConstructor(component_class, kwargs) ==
    /\ RequiredParameters(component_class) \subseteq DOMAIN kwargs
    /\ DOMAIN kwargs \subseteq Parameters(component_class)

\* C20: create on a registered name returns a new instance made with exactly
\* the keyword arguments given; on a name that is not registered it fails
\* with the not-found RegistrationError of get; when the arguments do not fit
\* the constructor it fails with a TypeError 'Failed to instantiate' that
\* names the component and ends with the message of the constructor's
\* TypeError; the registry is the same after each of the three.
C20_CreateInstanceOrError ==
    reg_last.op = "create" =>
        LET name == reg_last.name
            before == reg_last.before
        IN  /\ reg_registry = before
            /\ name \notin DOMAIN before =>
                  /\ reg_last.error = get(before, name).error
                  /\ reg_last.error[1].type = "RegistrationError"
                  /\ reg_last.ret_instance = <<>>
            /\ (name \in DOMAIN before /\ FitsConstructor(before[name], reg_last.kwargs)) =>
                  /\ reg_last.error = <<>>
                  /\ Len(reg_last.ret_instance) = 1
                  /\ reg_last.ret_instance[1].class = before[name]
                  /\ reg_last.ret_instance[1].kwargs = reg_last.kwargs
                  /\ reg_last.ret_instance[1].identity \notin 1..reg_last.made
            /\ (name \in DOMAIN before /\ ~FitsConstructor(before[name], reg_last.kwargs)) =>
                  LET original == Construct(before[name], reg_last.kwargs, 0).error[1]
                  IN  /\ Len(reg_last.error) = 1
                      /\ reg_last.error[1].type = "TypeError"
                      /\ reg_last.error[1].message =
                            Concat(<<"Failed to instantiate ", ComponentType, " '", name,
                                     "': ">>) \o original.message
                      /\ reg_last.ret_instance = <<>>

\* A second instance of ComponentWithArgs was created with value=1 from a
\* registry of two names, which is as it was.
C20_Witness ==
    /\ reg_last.op = "create"
    /\ reg_last.error = <<>>
    /\ reg_last.made = 1
    /\ Len(reg_last.ret_instance) = 1
    /\ reg_last.ret_instance[1].class = "ComponentWithArgs"
    /\ reg_last.ret_instance[1].kwargs = [k \in {"value"} |-> 1]
    /\ reg_last.ret_instance[1].identity = 2
    /\ Cardinality(DOMAIN reg_registry) = 2
    /\ reg_registry = reg_last.before


\* The calls that only look something up.
Lookups == {"get", "create", "is_registered", "list_available"}

\* names is in ascending order, without duplicates.
Ascending(names) ==
    \A i, j \in DOMAIN names :
        i < j => \E a, b \in DOMAIN NameOrder :
                     a < b /\ NameOrder[a] = names[i] /\ NameOrder[b] = names[j]

\* C26: after any sequence of calls, list_available returns in ascending
\* order, without duplicates, exactly the names whose last successful
\* register was not followed by a successful unregister of the name or by
\* clear, and is_registered is true of exactly those names; a call that
\* failed and a lookup leave the registered set as it was.
C26_ListedNamesAreLiveNames ==
    reg_last.op # "off" =>
        /\ Ascending(list_available(reg_registry))
        /\ Range(list_available(reg_registry)) = DOMAIN reg_latest
        /\ \A n \in Names : is_registered(reg_registry, n) <=> n \in DOMAIN reg_latest
        /\ reg_last.op = "list_available" =>
              /\ Ascending(reg_last.ret_names)
              /\ Range(reg_last.ret_names) = DOMAIN reg_latest
        /\ reg_last.op = "is_registered" =>
              (reg_last.ret_flag <=> reg_last.name \in DOMAIN reg_latest)
        /\ (reg_last.error # <<>> \/ reg_last.op \in Lookups) =>
              reg_registry = reg_last.before

\* After registrations, an unregister and the creation of an instance, the
\* unregister of a name that is not registered has just failed: the one name
\* whose registration stands is listed.
C26_Witness ==
    /\ reg_last.op = "unregister"
    /\ reg_last.error # <<>>
    /\ reg_made > 0
    /\ DOMAIN reg_latest = {"b"}
    /\ list_available(reg_registry) = <<"b">>
    /\ ~is_registered(reg_registry, reg_last.name)

(***************************************************************************)
(* One ComponentRegistry shared by threads.  The class holds no lock, so   *)
(* a thread may be suspended between the membership test a method starts   *)
(* with and the statement on self._registry that follows it.               *)
(***************************************************************************)
MaxThreads == 2      \* how many threads call the shared registry

Threads == 1..MaxThreads

\* The call a thread makes: register, get or unregister of the name "a".
ThreadCall(op, name, component_class, override) ==
    [op |-> op, name |-> name, class |-> component_class, override |-> override]

ThreadCalls ==
    {ThreadCall("register", "a", c, o) : c \in ComponentClasses, o \in BOOLEAN}
    \cup {ThreadCall("get", "a", NoValue, FALSE),
          ThreadCall("unregister", "a", NoValue, FALSE)}

SharedRegistries == {EmptyDict, DictWith(EmptyDict, "a", "DummyComponent")}

\* What a call gave its caller: the exception raised, or the class returned.
ThreadResult(error, class) == [error |-> error, class |-> class]

\* The call run from its first statement to its last with no other thread
\* in between.
Sequential(registry, call) ==
    IF call.op = "register"
    THEN register(registry, call.name, call.class, call.override)
    ELSE IF call.op = "get" THEN get(registry, call.name)
    ELSE unregister(registry, call.name)

\* self._registry[name] and del self._registry[name] on a missing key
KeyError(name) == Error("KeyError", <<"'", name, "'">>)

InitThreads ==
    /\ th_initial \in SharedRegistries
    /\ th_registry = th_initial
    /\ th_calls \in [Threads -> ThreadCalls]
    /\ th_pc = [t \in Threads |-> "check"]
    /\ th_out = [t \in Threads |-> <<>>]
    /\ IdleResolve
    /\ IdleHash
    /\ IdleRedact
    /\ IdlePipeline
    /\ IdleRegistry
    /\ IdleAnalyze

\* The if statement a method starts with: it raises, or lets the thread go
\* on to the statement after it.
ThreadCheck(t) ==
    LET alone == Sequential(th_registry, th_calls[t])
    IN  /\ th_pc[t] = "check"
        /\ IF alone.error # <<>>
           THEN /\ th_pc' = [th_pc EXCEPT ![t] = "done"]
                /\ th_out' = [th_out EXCEPT ![t] = <<ThreadResult(alone.error, NoValue)>>]
           ELSE /\ th_pc' = [th_pc EXCEPT ![t] = "act"]
                /\ UNCHANGED th_out
        /\ UNCHANGED <<th_initial, th_registry, th_calls>>
        /\ UNCHANGED <<resolveVars, hashVars, redactVars, pipeVars, registryVars, analyzeVars>>

\* self._registry[name] = component_class
ThreadRegister(t) ==
    /\ th_pc[t] = "act"
    /\ th_calls[t].op = "register"
    /\ th_registry' = DictWith(th_registry, th_calls[t].name, th_calls[t].class)
    /\ th_pc' = [th_pc EXCEPT ![t] = "done"]
    /\ th_out' = [th_out EXCEPT ![t] = <<ThreadResult(<<>>, NoValue)>>]
    /\ UNCHANGED <<th_initial, th_calls>>
    /\ UNCHANGED <<resolveVars, hashVars, redactVars, pipeVars, registryVars, analyzeVars>>

\* return self._registry[name]
ThreadGet(t) ==
    LET name == th_calls[t].name
    IN  /\ th_pc[t] = "act"
        /\ th_calls[t].op = "get"
        /\ th_pc' = [th_pc EXCEPT ![t] = "done"]
        /\ th_out' = [th_out EXCEPT ![t] =
                         IF name \in DOMAIN th_registry
                         THEN <<ThreadResult(<<>>, th_registry[name])>>
                         ELSE <<ThreadResult(<<KeyError(name)>>, NoValue)>>]
        /\ UNCHANGED <<th_initial, th_registry, th_calls>>
        /\ UNCHANGED <<resolveVars, hashVars, redactVars, pipeVars, registryVars, analyzeVars>>

\* del self._registry[name]
ThreadUnregister(t) ==
    LET name == th_calls[t].name
    IN  /\ th_pc[t] = "act"
        /\ th_calls[t].op = "unregister"
        /\ th_pc' = [th_pc EXCEPT ![t] = "done"]
        /\ IF name \in DOMAIN th_registry
           THEN /\ th_registry' = [k \in DOMAIN th_registry \ {name} |-> th_registry[k]]
                /\ th_out' = [th_out EXCEPT ![t] = <<ThreadResult(<<>>, NoValue)>>]
           ELSE /\ UNCHANGED th_registry
                /\ th_out' = [th_out EXCEPT ![t] = <<ThreadResult(<<KeyError(name)>>, NoValue)>>]
        /\ UNCHANGED <<th_initial, th_calls>>
        /\ UNCHANGED <<resolveVars, hashVars, redactVars, pipeVars, registryVars, analyzeVars>>

NextThreads ==
    \/ \E t \in Threads : ThreadCheck(t)
    \/ \E t \in Threads : ThreadRegister(t)
    \/ \E t \in Threads : ThreadGet(t)
    \/ \E t \in Threads : ThreadUnregister(t)

SpecThreads == InitThreads /\ [][NextThreads]_vars

\* The orders in which the threads' calls can be put one after the other.
Orders == {order \in [Threads -> Threads] : \A t \in Threads : \E i \in Threads : order[i] = t}

\* The calls run one at a time in the given order, from position i on: the
\* registry they leave and what each call gave its caller.
RECURSIVE SerialRun(_, _, _, _)
SerialRun(registry, order, i, results) ==
    IF i > MaxThreads THEN [registry |-> registry, out |-> results]
    ELSE LET alone == Sequential(registry, th_calls[order[i]])
         IN  SerialRun(alone.registry, order, i + 1,
                       [results EXCEPT ![order[i]] = <<ThreadResult(alone.error, alone.class)>>])

AllThreadsDone == th_pc # <<>> /\ \A t \in Threads : th_pc[t] = "done"

\* C21: once every thread's call has finished, the registry and what each
\* call returned or raised are those of the same calls made one at a time
\* in some order.
C21_ConcurrentCallsSerializable ==
    AllThreadsDone =>
        \E order \in Orders :
            LET serial == SerialRun(th_initial, order, 1, [t \in Threads |-> <<>>])
            IN  serial.registry = th_registry /\ serial.out = th_out

\* Two threads registered different classes under the same unregistered
\* name without override, and both calls returned normally.
C21_Witness ==
    /\ AllThreadsDone
    /\ th_initial = EmptyDict
    /\ \E t, u \in Threads :
          /\ t # u
          /\ th_calls[t].op = "register" /\ th_calls[u].op = "register"
          /\ ~th_calls[t].override /\ ~th_calls[u].override
          /\ th_calls[t].class # th_calls[u].class
          /\ th_out[t][1].error = <<>> /\ th_out[u][1].error = <<>>


(***************************************************************************)
(* The arguments of the detection call.  Redactor.redact hands its         *)
(* entities argument to PresidioAnalyzer.analyze, which reads the          *)
(* configuration it was built with and calls the detection engine.         *)
(* Thresholds are in hundredths.                                           *)
(***************************************************************************)
DefaultThreshold == 50

ThresholdKeys == {"default_confidence_threshold", "presidio_confidence_threshold"}

\* The top-level keys of a configuration that bear on detection.
RawConfigs ==
    UNION {{[k \in given |->
                IF k = "default_confidence_threshold" THEN default
                ELSE IF k = "presidio_confidence_threshold" THEN 90
                ELSE allowed] :
              default \in {30, 80}, allowed \in {<<>>, <<"PERSON", "US_SSN">>}} :
           given \in SUBSET (ThresholdKeys \cup {"entities_to_redact"})}

\* d.get(key, default)
DictGet(d, key, default) == IF key \in DOMAIN d THEN d[key] ELSE default

\* A configuration given as a plain mapping.
DictConfig(raw) ==
    [form |-> "dict", raw |-> raw, attributes |-> EmptyDict, override |-> <<>>]

\* load_config: the Config object made from the YAML mapping data.  Of the
\* attributes of the dataclass, the one that bears on detection is kept.
load_config(data) ==
    [form |-> "Config", raw |-> data,
     attributes |-> DictWith(EmptyDict, "default_confidence_threshold",
                             DictGet(data, "default_confidence_threshold", DefaultThreshold)),
     override |-> <<>>]

\* getattr(config, key, default)
GetAttr(config, key, default) == DictGet(config.attributes, key, default)

\* PresidioAnalyzer.analyze(text, entities): the keyword arguments of
\* self.analyzer.analyze
AnalyzeArguments(config, entities) ==
    [entities |->
        IF entities # <<>> THEN entities[1]
        ELSE IF config.form = "dict" THEN DictGet(config.raw, "entities_to_redact", <<>>)
        ELSE GetAttr(config, "entities_to_redact", <<>>),
     score_threshold |->
        IF config.form = "dict"
        THEN DictGet(config.raw, "presidio_confidence_threshold", DefaultThreshold)
        ELSE GetAttr(config, "presidio_confidence_threshold", DefaultThreshold)]

\* The entities argument of redact: empty for None, or the one list given.
EntityFilters == {<<>>, <<<<"EMAIL_ADDRESS">>>>}

\* The --threshold option of the command line: empty for not given, or the
\* one value given.
ThresholdOptions == {<<>>, <<70>>}

InitAnalyze ==
    /\ \E raw \in RawConfigs :
          \/ an_config = DictConfig(raw) /\ an_pc = "ready"
          \/ an_config = load_config(raw) /\ an_pc = "loaded"
    /\ an_entities \in EntityFilters
    /\ an_engine = <<>>
    /\ IdleResolve
    /\ IdleHash
    /\ IdleRedact
    /\ IdlePipeline
    /\ IdleRegistry
    /\ IdleThreads

\* main: if threshold is not None: config.default_confidence_threshold = threshold
OverrideThreshold ==
    /\ an_pc = "loaded"
    /\ \E threshold \in ThresholdOptions :
          an_config' =
              IF threshold = <<>> THEN an_config
              ELSE [an_config EXCEPT
                       !.attributes = DictWith(@, "default_confidence_threshold", threshold[1]),
                       !.override = threshold]
    /\ an_pc' = "ready"
    /\ UNCHANGED <<an_entities, an_engine>>
    /\ UNCHANGED <<resolveVars, hashVars, redactVars, pipeVars, registryVars, threadVars>>

\* redact: results = self.analyzer.analyze(text, entities=entities)
Analyze ==
    /\ an_pc = "ready"
    /\ an_engine' = <<AnalyzeArguments(an_config, an_entities)>>
    /\ an_pc' = "done"
    /\ UNCHANGED <<an_config, an_entities>>
    /\ UNCHANGED <<resolveVars, hashVars, redactVars, pipeVars, registryVars, threadVars>>

NextAnalyze == OverrideThreshold \/ Analyze

SpecAnalyze == InitAnalyze /\ [][NextAnalyze]_vars

\* The threshold in force: the --threshold option when given, else the
\* configured default_confidence_threshold.
ActiveThreshold(config) ==
    IF config.override # <<>> THEN config.override[1]
    ELSE DictGet(config.raw, "default_confidence_threshold", DefaultThreshold)

\* The configured entity allow-list.
AllowList(config) == DictGet(config.raw, "entities_to_redact", <<>>)

\* C24: on a detection call made without an explicit entity filter, the
\* engine is given the threshold in force and the configured allow-list.
C24_EngineGetsThresholdAndAllowList ==
    (an_pc = "done" /\ an_entities = <<>>) =>
        /\ an_engine[1].score_threshold = ActiveThreshold(an_config)
        /\ an_engine[1].entities = AllowList(an_config)

\* A Config object loaded from YAML that lists two entity types and was
\* given --threshold: the engine is called with no entity filter at all
\* and with the built-in threshold.
C24_Witness ==
    /\ an_pc = "done"
    /\ an_entities = <<>>
    /\ an_config.form = "Config"
    /\ AllowList(an_config) = <<"PERSON", "US_SSN">>
    /\ an_config.override = <<70>>
    /\ an_engine[1].entities = <<>>
    /\ an_engine[1].score_threshold = DefaultThreshold

====
